---------------------------- MODULE Spec2Model ----------------------------
(***************************************************************************)
(* A model of the ASMLab workbench: the line parser (parser.rs), the       *)
(* encoder adapter (assembler.rs), the CPU model and interpreter (cpu.rs)  *)
(* and the prompt loop (main.rs).                                          *)
(*                                                                         *)
(* Number representation.  TLC integers are 32 bits wide, so a u64 is kept *)
(* as four 16-bit limbs, least significant first: <<l0, l1, l2, l3>> is    *)
(* l0 + l1*2^16 + l2*2^32 + l3*2^48.  A u128 (one XMM register) is eight   *)
(* such limbs.  An i32 immediate is a TLC integer.  All arithmetic keeps   *)
(* the width the source has.                                               *)
(***************************************************************************)
EXTENDS Integers, Sequences, FiniteSets, TLC

VARIABLES
    cpu,              \* the CPU struct of the session (cpu.rs:6-32)
    overflow_checks,  \* build profile: TRUE when integer overflow panics (debug), FALSE when it wraps (release)
    repl_mode,        \* main.rs:39
    code_buffer,      \* main.rs:38
    session,          \* "running", "exited" (main returned) or "panicked" (the process aborted)
    log,              \* what the last step did: one Entry per line or instruction it processed
    steps             \* the number of steps taken so far

vars == <<cpu, overflow_checks, repl_mode, code_buffer, session, log, steps>>

\* `let x = v; F(x)`: v is computed once and F reads the computed value
Bind(v, F(_)) == CHOOSE y \in {F(x) : x \in {v}} : TRUE

---------------------------------------------------------------------------
(* u64 as four 16-bit limbs *)

ZeroU64 == <<0, 0, 0, 0>>

\* small non-negative integer (below 2^31) to u64
U64(n) == <<n % 65536, n \div 65536, 0, 0>>

\* `imm as u64` for imm: i32 -- sign extension (cpu.rs:134 and alike)
I32AsU64(imm) ==
    IF imm >= 0 THEN U64(imm)
    ELSE LET x == imm + 2147483647 + 1   \* imm + 2^31, in 0 .. 2^31-1
         IN  <<x % 65536, (x \div 65536) + 32768, 65535, 65535>>

\* u64::overflowing_add: the wrapped sum and the carry out of bit 63
OverflowingAdd(a, b) ==
    LET s1 == a[1] + b[1]
        s2 == a[2] + b[2] + (s1 \div 65536)
        s3 == a[3] + b[3] + (s2 \div 65536)
        s4 == a[4] + b[4] + (s3 \div 65536)
    IN  [result   |-> <<s1 % 65536, s2 % 65536, s3 % 65536, s4 % 65536>>,
         overflow |-> s4 >= 65536]

\* u64::overflowing_sub: the wrapped difference and the borrow
OverflowingSub(a, b) ==
    LET d1 == a[1] - b[1]
        b1 == IF d1 < 0 THEN 1 ELSE 0
        d2 == a[2] - b[2] - b1
        b2 == IF d2 < 0 THEN 1 ELSE 0
        d3 == a[3] - b[3] - b2
        b3 == IF d3 < 0 THEN 1 ELSE 0
        d4 == a[4] - b[4] - b3
    IN  [result   |-> <<d1 + 65536 * b1, d2 + 65536 * b2, d3 + 65536 * b3,
                        IF d4 < 0 THEN d4 + 65536 ELSE d4>>,
         overflow |-> d4 < 0]

\* a < b on u64
LessU64(a, b) ==
    \/ a[4] < b[4]
    \/ a[4] = b[4] /\ a[3] < b[3]
    \/ a[4] = b[4] /\ a[3] = b[3] /\ a[2] < b[2]
    \/ a[4] = b[4] /\ a[3] = b[3] /\ a[2] = b[2] /\ a[1] < b[1]

\* (v as i64) < 0: bit 63
IsNegativeI64(v) == v[4] >= 32768

\* bit i (0..63) of v
BitOf(v, i) == (v[(i \div 16) + 1] \div (2 ^ (i % 16))) % 2

\* the u64 whose bit i is f[i]
RECURSIVE LimbFromBits(_, _, _)
LimbFromBits(f, k, j) ==
    IF j = 16 THEN 0 ELSE f[16 * k + j] * (2 ^ j) + LimbFromBits(f, k, j + 1)

FromBits(f) ==
    Bind(f, LAMBDA g : <<LimbFromBits(g, 0, 0), LimbFromBits(g, 1, 0),
                         LimbFromBits(g, 2, 0), LimbFromBits(g, 3, 0)>>)

BitAnd(a, b) == FromBits([i \in 0..63 |-> BitOf(a, i) * BitOf(b, i)])
BitOr(a, b)  == FromBits([i \in 0..63 |-> IF BitOf(a, i) + BitOf(b, i) > 0 THEN 1 ELSE 0])
BitXor(a, b) == FromBits([i \in 0..63 |-> (BitOf(a, i) + BitOf(b, i)) % 2])
BitNot(a)    == <<65535 - a[1], 65535 - a[2], 65535 - a[3], 65535 - a[4]>>

\* v << n and v >> n for n in 0..63 (the bits shifted out are lost)
ShiftLeft(v, n)  == FromBits([i \in 0..63 |-> IF i >= n THEN BitOf(v, i - n) ELSE 0])
ShiftRight(v, n) == FromBits([i \in 0..63 |-> IF i + n <= 63 THEN BitOf(v, i + n) ELSE 0])

\* u64::rotate_left / rotate_right by n: u32 (the count is taken modulo 64)
RotateLeft(v, n)  == FromBits([i \in 0..63 |-> BitOf(v, (i + 64 - (n % 64)) % 64)])
RotateRight(v, n) == FromBits([i \in 0..63 |-> BitOf(v, (i + (n % 64)) % 64)])

\* `x as u32` for x: i32, reduced modulo 64 (all the rotate needs of it);
\* 2^32 is a multiple of 64, so the reduction commutes with the cast
I32AsU32Mod64(x) == x % 64

\* u64::to_le_bytes / u64::from_le_bytes
ToLeBytes(v) == <<v[1] % 256, v[1] \div 256, v[2] % 256, v[2] \div 256,
                  v[3] % 256, v[3] \div 256, v[4] % 256, v[4] \div 256>>
FromLeBytes(b) == <<b[1] + 256 * b[2], b[3] + 256 * b[4],
                    b[5] + 256 * b[6], b[7] + 256 * b[8]>>

---------------------------------------------------------------------------
(* The instruction model (parser.rs:10-57) *)

Register == {"Rax", "Rbx", "Rcx", "Rdx", "Rsi", "Rdi", "Rbp", "Rsp",
             "R8", "R9", "R10", "R11", "R12", "R13", "R14", "R15"}

InstructionType == {"Mov", "Add", "Sub", "And", "Or", "Xor", "Inc", "Dec", "Neg", "Not",
                    "Shl", "Shr", "Rol", "Ror", "Push", "Pop", "Cmp", "Test",
                    "Jmp", "Je", "Jne", "Jg", "Jge", "Jl", "Jle", "Call", "Ret",
                    "Paddd", "Bsf", "Cmovne"}

\* The three Operand variants.  Every operand record has the same fields so
\* that any two operands can be compared; `reg` is read only when kind is
\* "Register" and `num` only otherwise (the i32 immediate or the u8 XMM index).
OpRegister(r)    == [kind |-> "Register",    reg |-> r,   num |-> 0]
OpImmediate(i)   == [kind |-> "Immediate",   reg |-> "-", num |-> i]
OpXmmRegister(n) == [kind |-> "XmmRegister", reg |-> "-", num |-> n]

Instruction(t, ops) == [instruction_type |-> t, operands |-> ops]

IsRegImm(ops) == ops[1].kind = "Register" /\ ops[2].kind = "Immediate"
IsRegReg(ops) == ops[1].kind = "Register" /\ ops[2].kind = "Register"

---------------------------------------------------------------------------
(* The CPU model (cpu.rs) *)

MemorySize == 1048576

\* CPU::new (cpu.rs:40-54).  memory holds the non-zero bytes only: an
\* address outside its domain reads as 0.
NewCPU ==
    [gpr    |-> [r \in Register |-> IF r = "Rsp" THEN U64(MemorySize - 8) ELSE ZeroU64],
     rip    |-> ZeroU64,
     rflags |-> U64(2),
     cs |-> 0, fs |-> 0, gs |-> 0,
     cf |-> FALSE, zf |-> FALSE, sf |-> FALSE, of |-> FALSE,
     memory |-> << >>,
     xmm    |-> [i \in 0..15 |-> <<0, 0, 0, 0, 0, 0, 0, 0>>]]

\* the outcome of a handler: the CPU it leaves, or a panic of the process
Done(c)   == [cpu |-> c, panic |-> FALSE]
Panics(c) == [cpu |-> c, panic |-> TRUE]

\* Index / IndexMut for CPU (cpu.rs:431-477): self[reg], self[reg] = v
GetReg(c, reg) == c.gpr[reg]
SetReg(c, reg, v) == [c EXCEPT !.gpr[reg] = v]

\* the slice memory[address .. address + 8] exists (cpu.rs:406, 412)
SliceInRange(address) ==
    /\ address[4] = 0 /\ address[3] = 0 /\ address[2] <= 16
    /\ address[2] * 65536 + address[1] + 8 <= MemorySize

AddrOf(address) == address[2] * 65536 + address[1]

MemByte(memory, a) == IF a \in DOMAIN memory THEN memory[a] ELSE 0

\* CPU::read_memory (cpu.rs:405-408), for an address whose slice is in range
read_memory(c, address) ==
    FromLeBytes([i \in 1..8 |-> MemByte(c.memory, AddrOf(address) + i - 1)])

\* CPU::write_memory (cpu.rs:410-413), for an address whose slice is in range
write_memory(c, address, value) ==
    LET a     == AddrOf(address)
        bytes == ToLeBytes(value)
        slice == a .. (a + 7)
        keep  == (DOMAIN c.memory) \ slice
        set   == {x \in slice : bytes[x - a + 1] # 0}
    IN  [c EXCEPT !.memory = [x \in keep \cup set |->
                                 IF x \in slice THEN bytes[x - a + 1] ELSE c.memory[x]]]

\* the packing of RFLAGS (cpu.rs:424-427)
PackFlags(cf, zf, sf, of) ==
    U64((IF cf THEN 1 ELSE 0) + (IF zf THEN 64 ELSE 0)
        + (IF sf THEN 128 ELSE 0) + (IF of THEN 2048 ELSE 0))

\* CPU::update_flags (cpu.rs:417-428)
update_flags(c, result, overflow) ==
    Bind(result = ZeroU64, LAMBDA zf :
    Bind(IsNegativeI64(result), LAMBDA sf :
    Bind(LessU64(result, GetReg(c, "Rax")), LAMBDA cf :
        [c EXCEPT !.zf = zf, !.sf = sf, !.cf = cf, !.of = overflow,
                  !.rflags = PackFlags(cf, zf, sf, overflow)])))

\* execute_mov with `imm as u32 as u64` in place of `imm as u64`: the
\* immediate is zero-extended
execute_mov_zero_extended(c, instruction) ==
    LET ops == instruction.operands IN
    IF Len(ops) < 2 THEN Panics(c)
    ELSE IF IsRegImm(ops) THEN
        Done(SetReg(c, ops[1].reg, <<I32AsU64(ops[2].num)[1], I32AsU64(ops[2].num)[2], 0, 0>>))
    ELSE IF IsRegReg(ops) THEN Done(SetReg(c, ops[1].reg, GetReg(c, ops[2].reg)))
    ELSE Done(c)

\* execute_mov with a flag update from the value moved
execute_mov_updating_flags(c, instruction) ==
    LET ops == instruction.operands IN
    IF Len(ops) < 2 THEN Panics(c)
    ELSE IF IsRegImm(ops) \/ IsRegReg(ops) THEN
        Bind(IF ops[2].kind = "Immediate" THEN I32AsU64(ops[2].num)
             ELSE GetReg(c, ops[2].reg), LAMBDA value :
            Done(update_flags(SetReg(c, ops[1].reg, value), value, FALSE)))
    ELSE Done(c)

\* CPU::execute_mov (cpu.rs:132-138)
execute_mov(c, instruction) ==
    LET ops == instruction.operands IN
    IF Len(ops) < 2 THEN Panics(c)
    ELSE IF IsRegImm(ops) THEN Done(SetReg(c, ops[1].reg, I32AsU64(ops[2].num)))
    ELSE IF IsRegReg(ops) THEN Done(SetReg(c, ops[1].reg, GetReg(c, ops[2].reg)))
    ELSE Done(c)

\* the second operand's value of a two-operand arithmetic instruction
SrcValue(c, op) == IF op.kind = "Immediate" THEN I32AsU64(op.num) ELSE GetReg(c, op.reg)

\* execute_add with the signed overflow of the sum as the overflow flag:
\* both addends have the same sign and the sum has the other
execute_add_signed_overflow(c, instruction) ==
    LET ops == instruction.operands IN
    IF Len(ops) < 2 THEN Panics(c)
    ELSE IF IsRegImm(ops) \/ IsRegReg(ops) THEN
        Bind(GetReg(c, ops[1].reg), LAMBDA a :
        Bind(SrcValue(c, ops[2]), LAMBDA b :
        Bind(OverflowingAdd(a, b), LAMBDA r :
            Done(update_flags(SetReg(c, ops[1].reg, r.result), r.result,
                              /\ IsNegativeI64(a) = IsNegativeI64(b)
                              /\ IsNegativeI64(r.result) # IsNegativeI64(a))))))
    ELSE Done(c)

\* CPU::execute_add (cpu.rs:140-150)
execute_add(c, instruction) ==
    LET ops == instruction.operands IN
    IF Len(ops) < 2 THEN Panics(c)
    ELSE IF IsRegImm(ops) \/ IsRegReg(ops) THEN
        Bind(OverflowingAdd(GetReg(c, ops[1].reg), SrcValue(c, ops[2])), LAMBDA r :
            Done(update_flags(SetReg(c, ops[1].reg, r.result), r.result, r.overflow)))
    ELSE Done(c)

\* CPU::execute_sub (cpu.rs:152-162)
execute_sub(c, instruction) ==
    LET ops == instruction.operands IN
    IF Len(ops) < 2 THEN Panics(c)
    ELSE IF IsRegImm(ops) \/ IsRegReg(ops) THEN
        Bind(OverflowingSub(GetReg(c, ops[1].reg), SrcValue(c, ops[2])), LAMBDA r :
            Done(update_flags(SetReg(c, ops[1].reg, r.result), r.result, r.overflow)))
    ELSE Done(c)

\* CPU::execute_and (cpu.rs:164-172)
execute_and(c, instruction) ==
    LET ops == instruction.operands IN
    IF Len(ops) < 2 THEN Panics(c)
    ELSE IF IsRegImm(ops) \/ IsRegReg(ops) THEN
        Bind(SetReg(c, ops[1].reg, BitAnd(GetReg(c, ops[1].reg), SrcValue(c, ops[2]))), LAMBDA c1 :
            Done(update_flags(c1, GetReg(c1, ops[1].reg), FALSE)))
    ELSE Done(c)

\* CPU::execute_or (cpu.rs:174-182)
execute_or(c, instruction) ==
    LET ops == instruction.operands IN
    IF Len(ops) < 2 THEN Panics(c)
    ELSE IF IsRegImm(ops) \/ IsRegReg(ops) THEN
        Bind(SetReg(c, ops[1].reg, BitOr(GetReg(c, ops[1].reg), SrcValue(c, ops[2]))), LAMBDA c1 :
            Done(update_flags(c1, GetReg(c1, ops[1].reg), FALSE)))
    ELSE Done(c)

\* CPU::execute_xor (cpu.rs:184-192)
execute_xor(c, instruction) ==
    LET ops == instruction.operands IN
    IF Len(ops) < 2 THEN Panics(c)
    ELSE IF IsRegImm(ops) \/ IsRegReg(ops) THEN
        Bind(SetReg(c, ops[1].reg, BitXor(GetReg(c, ops[1].reg), SrcValue(c, ops[2]))), LAMBDA c1 :
            Done(update_flags(c1, GetReg(c1, ops[1].reg), FALSE)))
    ELSE Done(c)

\* execute_inc as the instruction set defines INC: CF is left alone
execute_inc_keeping_cf(c, instruction) ==
    LET ops == instruction.operands IN
    IF Len(ops) < 1 THEN Panics(c)
    ELSE IF ops[1].kind = "Register" THEN
        Bind(OverflowingAdd(GetReg(c, ops[1].reg), U64(1)), LAMBDA r :
        Bind(update_flags(SetReg(c, ops[1].reg, r.result), r.result, r.overflow), LAMBDA c1 :
            Done([c1 EXCEPT !.cf = c.cf,
                            !.rflags = PackFlags(c.cf, c1.zf, c1.sf, c1.of)])))
    ELSE Done(c)

\* CPU::execute_inc (cpu.rs:194-200)
execute_inc(c, instruction) ==
    LET ops == instruction.operands IN
    IF Len(ops) < 1 THEN Panics(c)
    ELSE IF ops[1].kind = "Register" THEN
        Bind(OverflowingAdd(GetReg(c, ops[1].reg), U64(1)), LAMBDA r :
            Done(update_flags(SetReg(c, ops[1].reg, r.result), r.result, r.overflow)))
    ELSE Done(c)

\* CPU::execute_dec (cpu.rs:202-208)
execute_dec(c, instruction) ==
    LET ops == instruction.operands IN
    IF Len(ops) < 1 THEN Panics(c)
    ELSE IF ops[1].kind = "Register" THEN
        Bind(OverflowingSub(GetReg(c, ops[1].reg), U64(1)), LAMBDA r :
            Done(update_flags(SetReg(c, ops[1].reg, r.result), r.result, r.overflow)))
    ELSE Done(c)

\* execute_neg with the signed overflow as OF: set only when the operand
\* is -2^63
execute_neg_signed_overflow(c, instruction) ==
    LET ops == instruction.operands IN
    IF Len(ops) < 1 THEN Panics(c)
    ELSE IF ops[1].kind = "Register" THEN
        Bind(OverflowingSub(ZeroU64, GetReg(c, ops[1].reg)), LAMBDA r :
            Done(update_flags(SetReg(c, ops[1].reg, r.result), r.result,
                              GetReg(c, ops[1].reg) = <<0, 0, 0, 32768>>)))
    ELSE Done(c)

\* CPU::execute_neg (cpu.rs:210-216)
execute_neg(c, instruction) ==
    LET ops == instruction.operands IN
    IF Len(ops) < 1 THEN Panics(c)
    ELSE IF ops[1].kind = "Register" THEN
        Bind(OverflowingSub(ZeroU64, GetReg(c, ops[1].reg)), LAMBDA r :
            Done(update_flags(SetReg(c, ops[1].reg, r.result), r.result, r.overflow)))
    ELSE Done(c)

\* execute_not as the instruction set defines NOT: the flags are left
\* alone
execute_not_keeping_flags(c, instruction) ==
    LET ops == instruction.operands IN
    IF Len(ops) < 1 THEN Panics(c)
    ELSE IF ops[1].kind = "Register" THEN
        Done(SetReg(c, ops[1].reg, BitNot(GetReg(c, ops[1].reg))))
    ELSE Done(c)

\* CPU::execute_not (cpu.rs:218-223)
execute_not(c, instruction) ==
    LET ops == instruction.operands IN
    IF Len(ops) < 1 THEN Panics(c)
    ELSE IF ops[1].kind = "Register" THEN
        Bind(SetReg(c, ops[1].reg, BitNot(GetReg(c, ops[1].reg))), LAMBDA c1 :
            Done(update_flags(c1, GetReg(c1, ops[1].reg), FALSE)))
    ELSE Done(c)

\* `u64 << i32` and `u64 >> i32`: a count outside 0..63 panics when the
\* build checks overflow and is masked to its low 6 bits when it does not
ShiftOverflows(shift) == shift < 0 \/ shift > 63

\* CPU::execute_shl (cpu.rs:225-231)
execute_shl(c, instruction) ==
    LET ops == instruction.operands IN
    IF Len(ops) < 2 THEN Panics(c)
    ELSE IF IsRegImm(ops) THEN
        IF ShiftOverflows(ops[2].num) /\ overflow_checks THEN Panics(c)
        ELSE Bind(ShiftLeft(GetReg(c, ops[1].reg), ops[2].num % 64), LAMBDA result :
                 Done(update_flags(SetReg(c, ops[1].reg, result), result, FALSE)))
    ELSE Done(c)

\* CPU::execute_shr (cpu.rs:233-239)
execute_shr(c, instruction) ==
    LET ops == instruction.operands IN
    IF Len(ops) < 2 THEN Panics(c)
    ELSE IF IsRegImm(ops) THEN
        IF ShiftOverflows(ops[2].num) /\ overflow_checks THEN Panics(c)
        ELSE Bind(ShiftRight(GetReg(c, ops[1].reg), ops[2].num % 64), LAMBDA result :
                 Done(update_flags(SetReg(c, ops[1].reg, result), result, FALSE)))
    ELSE Done(c)

\* execute_rol with a shift in place of the rotation: the bits that leave
\* at the top are lost
execute_rol_through_shift(c, instruction) ==
    LET ops == instruction.operands IN
    IF Len(ops) < 2 THEN Panics(c)
    ELSE IF IsRegImm(ops) THEN
        Bind(ShiftLeft(GetReg(c, ops[1].reg), I32AsU32Mod64(ops[2].num)), LAMBDA result :
            Done(update_flags(SetReg(c, ops[1].reg, result), result, FALSE)))
    ELSE Done(c)

\* CPU::execute_rol (cpu.rs:241-247)
execute_rol(c, instruction) ==
    LET ops == instruction.operands IN
    IF Len(ops) < 2 THEN Panics(c)
    ELSE IF IsRegImm(ops) THEN
        Bind(RotateLeft(GetReg(c, ops[1].reg), I32AsU32Mod64(ops[2].num)), LAMBDA result :
            Done(update_flags(SetReg(c, ops[1].reg, result), result, FALSE)))
    ELSE Done(c)

\* CPU::execute_ror (cpu.rs:249-255)
execute_ror(c, instruction) ==
    LET ops == instruction.operands IN
    IF Len(ops) < 2 THEN Panics(c)
    ELSE IF IsRegImm(ops) THEN
        Bind(RotateRight(GetReg(c, ops[1].reg), I32AsU32Mod64(ops[2].num)), LAMBDA result :
            Done(update_flags(SetReg(c, ops[1].reg, result), result, FALSE)))
    ELSE Done(c)

\* `a - b` and `a + b` on u64 outside the overflowing_* primitives: an
\* overflow panics when the build checks overflow and wraps when it does not
ArithPanics(r) == r.overflow /\ overflow_checks

\* execute_push with the write before the decrement: the value lands in
\* the slot at the old RSP
execute_push_write_first(c, instruction) ==
    LET ops == instruction.operands IN
    IF Len(ops) < 1 THEN Panics(c)
    ELSE IF ops[1].kind = "Register" THEN
        Bind(OverflowingSub(GetReg(c, "Rsp"), U64(8)), LAMBDA dec :
            IF ~SliceInRange(GetReg(c, "Rsp")) THEN Panics(c)
            ELSE IF ArithPanics(dec) THEN Panics(c)
            ELSE Done(SetReg(write_memory(c, GetReg(c, "Rsp"), GetReg(c, ops[1].reg)),
                             "Rsp", dec.result)))
    ELSE Done(c)

\* CPU::execute_push (cpu.rs:257-263)
execute_push(c, instruction) ==
    LET ops == instruction.operands IN
    IF Len(ops) < 1 THEN Panics(c)
    ELSE IF ops[1].kind = "Register" THEN
        Bind(OverflowingSub(GetReg(c, "Rsp"), U64(8)), LAMBDA dec :
        Bind(SetReg(c, "Rsp", dec.result), LAMBDA c1 :
        Bind(GetReg(c1, ops[1].reg), LAMBDA value :
            IF ArithPanics(dec) THEN Panics(c)
            ELSE IF ~SliceInRange(GetReg(c1, "Rsp")) THEN Panics(c1)
            ELSE Done(write_memory(c1, GetReg(c1, "Rsp"), value)))))
    ELSE Done(c)

\* execute_pop without `self.rsp += 8`: every POP reads the same slot
execute_pop_without_increment(c, instruction) ==
    LET ops == instruction.operands IN
    IF Len(ops) < 1 THEN Panics(c)
    ELSE IF ops[1].kind = "Register" THEN
        IF ~SliceInRange(GetReg(c, "Rsp")) THEN Panics(c)
        ELSE Done(SetReg(c, ops[1].reg, read_memory(c, GetReg(c, "Rsp"))))
    ELSE Done(c)

\* CPU::execute_pop (cpu.rs:265-271)
execute_pop(c, instruction) ==
    LET ops == instruction.operands IN
    IF Len(ops) < 1 THEN Panics(c)
    ELSE IF ops[1].kind = "Register" THEN
        IF ~SliceInRange(GetReg(c, "Rsp")) THEN Panics(c)
        ELSE Bind(read_memory(c, GetReg(c, "Rsp")), LAMBDA value :
             Bind(SetReg(c, ops[1].reg, value), LAMBDA c1 :
             Bind(OverflowingAdd(GetReg(c1, "Rsp"), U64(8)), LAMBDA inc :
                 IF ArithPanics(inc) THEN Panics(c1)
                 ELSE Done(SetReg(c1, "Rsp", inc.result)))))
    ELSE Done(c)

\* execute_cmp with the difference stored, as execute_sub does
execute_cmp_storing(c, instruction) ==
    LET ops == instruction.operands IN
    IF Len(ops) < 2 THEN Panics(c)
    ELSE IF IsRegImm(ops) \/ IsRegReg(ops) THEN
        Bind(OverflowingSub(GetReg(c, ops[1].reg), SrcValue(c, ops[2])), LAMBDA r :
            Done(update_flags(SetReg(c, ops[1].reg, r.result), r.result, r.overflow)))
    ELSE Done(c)

\* CPU::execute_cmp (cpu.rs:273-281)
execute_cmp(c, instruction) ==
    LET ops == instruction.operands IN
    IF Len(ops) < 2 THEN Panics(c)
    ELSE IF IsRegImm(ops) \/ IsRegReg(ops) THEN
        Bind(OverflowingSub(GetReg(c, ops[1].reg), SrcValue(c, ops[2])), LAMBDA r :
            Done(update_flags(c, r.result, r.overflow)))
    ELSE Done(c)

\* CPU::execute_test (cpu.rs:283-291)
execute_test(c, instruction) ==
    LET ops == instruction.operands IN
    IF Len(ops) < 2 THEN Panics(c)
    ELSE IF IsRegImm(ops) \/ IsRegReg(ops) THEN
        Bind(BitAnd(GetReg(c, ops[1].reg), SrcValue(c, ops[2])), LAMBDA result :
            Done(update_flags(c, result, FALSE)))
    ELSE Done(c)

\* CPU::execute_jmp (cpu.rs:293-297)
execute_jmp(c, instruction) ==
    LET ops == instruction.operands IN
    IF Len(ops) < 1 THEN Panics(c)
    ELSE IF ops[1].kind = "Immediate" THEN
        Bind(OverflowingSub(I32AsU64(ops[1].num), U64(1)), LAMBDA dec :
            IF ArithPanics(dec) THEN Panics(c)
            ELSE Done([c EXCEPT !.rip = dec.result]))
    ELSE Done(c)

\* CPU::execute_je (cpu.rs:299-305)
execute_je(c, instruction) ==
    IF c.zf THEN execute_jmp(c, instruction) ELSE Done(c)

\* CPU::execute_jne (cpu.rs:307-313)
execute_jne(c, instruction) ==
    IF ~c.zf THEN execute_jmp(c, instruction) ELSE Done(c)

\* CPU::execute_jg (cpu.rs:315-321)
execute_jg(c, instruction) ==
    IF ~c.zf /\ c.sf = c.of THEN execute_jmp(c, instruction) ELSE Done(c)

\* CPU::execute_jge (cpu.rs:323-329)
execute_jge(c, instruction) ==
    IF c.sf = c.of THEN execute_jmp(c, instruction) ELSE Done(c)

\* CPU::execute_jl (cpu.rs:331-337)
execute_jl(c, instruction) ==
    IF c.sf # c.of THEN execute_jmp(c, instruction) ELSE Done(c)

\* CPU::execute_jle (cpu.rs:339-345)
execute_jle(c, instruction) ==
    IF c.zf \/ c.sf # c.of THEN execute_jmp(c, instruction) ELSE Done(c)

\* CPU::execute_call (cpu.rs:347-351)
execute_call(c, instruction) ==
    Bind(OverflowingSub(GetReg(c, "Rsp"), U64(8)), LAMBDA dec :
    Bind(SetReg(c, "Rsp", dec.result), LAMBDA c1 :
    Bind(OverflowingAdd(c1.rip, U64(1)), LAMBDA ret :
        IF ArithPanics(dec) THEN Panics(c)
        ELSE IF ArithPanics(ret) THEN Panics(c1)
        ELSE IF ~SliceInRange(GetReg(c1, "Rsp")) THEN Panics(c1)
        ELSE Bind(write_memory(c1, GetReg(c1, "Rsp"), ret.result), LAMBDA c2 :
                 execute_jmp(c2, instruction)))))

\* CPU::execute_ret (cpu.rs:353-356)
execute_ret(c, instruction) ==
    IF ~SliceInRange(GetReg(c, "Rsp")) THEN Panics(c)
    ELSE Bind(OverflowingSub(read_memory(c, GetReg(c, "Rsp")), U64(1)), LAMBDA dec :
         Bind([c EXCEPT !.rip = dec.result], LAMBDA c1 :
         Bind(OverflowingAdd(GetReg(c1, "Rsp"), U64(8)), LAMBDA inc :
             IF ArithPanics(dec) THEN Panics(c)
             ELSE IF ArithPanics(inc) THEN Panics(c1)
             ELSE Done(SetReg(c1, "Rsp", inc.result)))))

\* the loop of execute_bsf (cpu.rs:365-368), for a non-zero source_value
RECURSIVE BsfLoop(_, _)
BsfLoop(source_value, index) ==
    IF BitOf(source_value, index) = 0 THEN BsfLoop(source_value, index + 1) ELSE index

\* execute_bsf with the destination written on both paths: a zero source
\* sets ZF and stores 0
execute_bsf_writing_on_zero(c, instruction) ==
    LET ops == instruction.operands IN
    IF Len(ops) < 2 THEN Panics(c)
    ELSE IF IsRegReg(ops) THEN
        Bind(GetReg(c, ops[2].reg), LAMBDA source_value :
            IF source_value = ZeroU64 THEN Done(SetReg([c EXCEPT !.zf = TRUE], ops[1].reg, ZeroU64))
            ELSE Done(SetReg([c EXCEPT !.zf = FALSE], ops[1].reg,
                             U64(BsfLoop(source_value, 0)))))
    ELSE Done(c)

\* CPU::execute_bsf (cpu.rs:358-374)
execute_bsf(c, instruction) ==
    LET ops == instruction.operands IN
    IF Len(ops) < 2 THEN Panics(c)
    ELSE IF IsRegReg(ops) THEN
        Bind(GetReg(c, ops[2].reg), LAMBDA source_value :
            IF source_value = ZeroU64 THEN Done([c EXCEPT !.zf = TRUE])
            ELSE Done(SetReg([c EXCEPT !.zf = FALSE], ops[1].reg,
                             U64(BsfLoop(source_value, 0)))))
    ELSE Done(c)

\* execute_cmovne with the condition of CMOVE: the move is made when ZF
\* is set
execute_cmovne_on_equal(c, instruction) ==
    LET ops == instruction.operands IN
    IF c.zf THEN
        IF Len(ops) < 2 THEN Panics(c)
        ELSE IF IsRegReg(ops) THEN Done(SetReg(c, ops[1].reg, GetReg(c, ops[2].reg)))
        ELSE Done(c)
    ELSE Done(c)

\* CPU::execute_cmovne (cpu.rs:376-386)
execute_cmovne(c, instruction) ==
    LET ops == instruction.operands IN
    IF ~c.zf THEN
        IF Len(ops) < 2 THEN Panics(c)
        ELSE IF IsRegReg(ops) THEN Done(SetReg(c, ops[1].reg, GetReg(c, ops[2].reg)))
        ELSE Done(c)
    ELSE Done(c)

\* the carry that a 128-bit addition brings into part i
RECURSIVE PadddCarryIn(_, _, _)
PadddCarryIn(dest_val, src_val, i) ==
    IF i = 0 THEN 0
    ELSE (dest_val[2 * i] + src_val[2 * i]
          + ((dest_val[2 * i - 1] + src_val[2 * i - 1]
              + PadddCarryIn(dest_val, src_val, i - 1)) \div 65536)) \div 65536

\* one part of execute_paddd as `dest_val.wrapping_add(src_val)` on the
\* whole u128 would give it: the carry out of a part enters the next part
PadddPart_adding_u128(dest_val, src_val, i) ==
    Bind(PadddCarryIn(dest_val, src_val, i), LAMBDA carry :
        LET lo == dest_val[2 * i + 1] + src_val[2 * i + 1] + carry
            hi == dest_val[2 * i + 2] + src_val[2 * i + 2] + (lo \div 65536)
        IN  <<lo % 65536, hi % 65536>>)

\* one 32-bit part of execute_paddd (cpu.rs:395-397): part i (0..3) of a
\* u128 is its limbs 2i+1 and 2i+2; the parts are added and the sum is
\* masked to 32 bits, so the carry out of a part is dropped
PadddPart(dest_val, src_val, i) ==
    LET lo == dest_val[2 * i + 1] + src_val[2 * i + 1]
        hi == dest_val[2 * i + 2] + src_val[2 * i + 2] + (lo \div 65536)
    IN  <<lo % 65536, hi % 65536>>

\* CPU::execute_paddd (cpu.rs:388-403)
execute_paddd(c, instruction) ==
    LET ops == instruction.operands IN
    IF Len(ops) < 2 THEN Panics(c)
    ELSE IF ops[1].kind = "XmmRegister" /\ ops[2].kind = "XmmRegister" THEN
        IF ops[1].num > 15 \/ ops[2].num > 15 THEN Panics(c)
        ELSE Bind(c.xmm[ops[1].num], LAMBDA dest_val :
             Bind(c.xmm[ops[2].num], LAMBDA src_val :
             Bind(PadddPart(dest_val, src_val, 0) \o PadddPart(dest_val, src_val, 1)
                  \o PadddPart(dest_val, src_val, 2) \o PadddPart(dest_val, src_val, 3),
                  LAMBDA result :
                 Done([c EXCEPT !.xmm[ops[1].num] = result]))))
    ELSE Done(c)

\* the match of CPU::execute (cpu.rs:94-128)
Dispatch(c, instruction) ==
    LET t == instruction.instruction_type IN
    CASE t = "Mov"    -> execute_mov(c, instruction)
      [] t = "Add"    -> execute_add(c, instruction)
      [] t = "Sub"    -> execute_sub(c, instruction)
      [] t = "And"    -> execute_and(c, instruction)
      [] t = "Or"     -> execute_or(c, instruction)
      [] t = "Xor"    -> execute_xor(c, instruction)
      [] t = "Inc"    -> execute_inc(c, instruction)
      [] t = "Dec"    -> execute_dec(c, instruction)
      [] t = "Neg"    -> execute_neg(c, instruction)
      [] t = "Not"    -> execute_not(c, instruction)
      [] t = "Shl"    -> execute_shl(c, instruction)
      [] t = "Shr"    -> execute_shr(c, instruction)
      [] t = "Rol"    -> execute_rol(c, instruction)
      [] t = "Ror"    -> execute_ror(c, instruction)
      [] t = "Push"   -> execute_push(c, instruction)
      [] t = "Pop"    -> execute_pop(c, instruction)
      [] t = "Cmp"    -> execute_cmp(c, instruction)
      [] t = "Test"   -> execute_test(c, instruction)
      [] t = "Jmp"    -> execute_jmp(c, instruction)
      [] t = "Je"     -> execute_je(c, instruction)
      [] t = "Jne"    -> execute_jne(c, instruction)
      [] t = "Jg"     -> execute_jg(c, instruction)
      [] t = "Jge"    -> execute_jge(c, instruction)
      [] t = "Jl"     -> execute_jl(c, instruction)
      [] t = "Jle"    -> execute_jle(c, instruction)
      [] t = "Call"   -> execute_call(c, instruction)
      [] t = "Ret"    -> execute_ret(c, instruction)
      [] t = "Paddd"  -> execute_paddd(c, instruction)
      [] t = "Bsf"    -> execute_bsf(c, instruction)
      [] t = "Cmovne" -> execute_cmovne(c, instruction)

\* execute without `self.rip += 1`
execute_keeping_rip(c, instruction) == Dispatch(c, instruction)

\* CPU::execute (cpu.rs:93-130): the dispatch, then `self.rip += 1`
execute(c, instruction) ==
    Bind(Dispatch(c, instruction), LAMBDA r :
    Bind(OverflowingAdd(r.cpu.rip, U64(1)), LAMBDA inc :
        IF r.panic THEN r
        ELSE IF ArithPanics(inc) THEN Panics(r.cpu)
        ELSE Done([r.cpu EXCEPT !.rip = inc.result])))

---------------------------------------------------------------------------
(* The parser (parser.rs).  A line is a string; a parser takes the input   *)
(* and returns either Fail or Ok(rest, val), as nom's IResult does.        *)

Fail == [ok |-> FALSE]
Ok(rest, val) == [ok |-> TRUE, rest |-> rest, val |-> val]

CharAt(input, i) == SubSeq(input, i, i)
Drop(input, n) == SubSeq(input, n + 1, Len(input))
StartsWith(input, t) == Len(input) >= Len(t) /\ SubSeq(input, 1, Len(t)) = t

Space == {" ", "\t"}
Digit == {"0", "1", "2", "3", "4", "5", "6", "7", "8", "9"}
HexDigit == Digit \cup {"a", "b", "c", "d", "e", "f", "A", "B", "C", "D", "E", "F"}

DigitValue(ch) ==
    CASE ch = "0" -> 0 [] ch = "1" -> 1 [] ch = "2" -> 2 [] ch = "3" -> 3 [] ch = "4" -> 4
      [] ch = "5" -> 5 [] ch = "6" -> 6 [] ch = "7" -> 7 [] ch = "8" -> 8 [] ch = "9" -> 9
      [] ch \in {"a", "A"} -> 10 [] ch \in {"b", "B"} -> 11 [] ch \in {"c", "C"} -> 12
      [] ch \in {"d", "D"} -> 13 [] ch \in {"e", "E"} -> 14 [] ch \in {"f", "F"} -> 15

\* the number of leading characters of input that are in class
RECURSIVE LeadingCount(_, _)
LeadingCount(input, class) ==
    IF Len(input) > 0 /\ CharAt(input, 1) \in class
    THEN 1 + LeadingCount(Drop(input, 1), class)
    ELSE 0

\* nom tag
tag(t, input) == IF StartsWith(input, t) THEN Ok(Drop(input, Len(t)), t) ELSE Fail

\* nom space0, space1, digit1, hex_digit1
space0(input) ==
    Bind(LeadingCount(input, Space), LAMBDA n : Ok(Drop(input, n), SubSeq(input, 1, n)))
space1(input) ==
    Bind(LeadingCount(input, Space), LAMBDA n :
        IF n = 0 THEN Fail ELSE Ok(Drop(input, n), SubSeq(input, 1, n)))
digit1(input) ==
    Bind(LeadingCount(input, Digit), LAMBDA n :
        IF n = 0 THEN Fail ELSE Ok(Drop(input, n), SubSeq(input, 1, n)))
hex_digit1(input) ==
    Bind(LeadingCount(input, HexDigit), LAMBDA n :
        IF n = 0 THEN Fail ELSE Ok(Drop(input, n), SubSeq(input, 1, n)))

\* nom opt: a failure becomes the value "None" with nothing consumed
None == [some |-> FALSE]
Some(v) == [some |-> TRUE, v |-> v]
opt(r, input) == Bind(r, LAMBDA x : IF x.ok THEN Ok(x.rest, Some(x.val)) ELSE Ok(input, None))

\* str::parse of a string of decimal digits into an integer type whose
\* largest value is max (at most 2^31 - 1): the value, or -1 on overflow
RECURSIVE ParseDecimal(_, _, _)
ParseDecimal(digits, acc, max) ==
    IF Len(digits) = 0 THEN acc
    ELSE Bind(DigitValue(CharAt(digits, 1)), LAMBDA d :
             IF acc > (max - d) \div 10 THEN -1
             ELSE Bind(Drop(digits, 1), LAMBDA rest :
                  Bind(acc * 10 + d, LAMBDA next : ParseDecimal(rest, next, max))))

\* the first alternative of a table of <<spelling, value>> pairs whose
\* spelling is a prefix of the input: nom alt over map(tag(..), ..)
RECURSIVE AltTags(_, _, _)
AltTags(table, i, input) ==
    IF i > Len(table) THEN Fail
    ELSE IF StartsWith(input, table[i][1]) THEN Ok(Drop(input, Len(table[i][1])), table[i][2])
    ELSE AltTags(table, i + 1, input)

\* register (parser.rs:116-135)
RegisterTable ==
    << <<"rax", "Rax">>, <<"rbx", "Rbx">>, <<"rcx", "Rcx">>, <<"rdx", "Rdx">>,
       <<"rsi", "Rsi">>, <<"rdi", "Rdi">>, <<"rbp", "Rbp">>, <<"rsp", "Rsp">>,
       <<"r8", "R8">>, <<"r9", "R9">>, <<"r10", "R10">>, <<"r11", "R11">>,
       <<"r12", "R12">>, <<"r13", "R13">>, <<"r14", "R14">>, <<"r15", "R15">> >>

\* register with one tag "r1" in place of "r10" .. "r15": a second digit
\* is left in the input
register_first_digit_only(input) ==
    AltTags(SubSeq(RegisterTable, 1, 10) \o << <<"r1", "R10">> >>, 1, input)

register(input) == AltTags(RegisterTable, 1, input)

\* immediate (parser.rs:142-144): digit1, then str::parse::<i32>
immediate(input) ==
    Bind(digit1(input), LAMBDA d :
        IF ~d.ok THEN Fail
        ELSE Bind(ParseDecimal(d.val, 0, 2147483647), LAMBDA v :
                 IF v < 0 THEN Fail ELSE Ok(d.rest, v)))

\* xmm_register (parser.rs:295-298): "xmm", digit1, then str::parse::<u8>
xmm_register(input) ==
    Bind(tag("xmm", input), LAMBDA t :
        IF ~t.ok THEN Fail
        ELSE Bind(digit1(t.rest), LAMBDA d :
                 IF ~d.ok THEN Fail
                 ELSE Bind(ParseDecimal(d.val, 0, 255), LAMBDA v :
                          IF v < 0 THEN Fail ELSE Ok(d.rest, v))))

\* operand (parser.rs:283-289)
operand(input) ==
    Bind(register(input), LAMBDA r :
        IF r.ok THEN Ok(r.rest, OpRegister(r.val))
        ELSE Bind(immediate(input), LAMBDA i :
            IF i.ok THEN Ok(i.rest, OpImmediate(i.val))
            ELSE Bind(xmm_register(input), LAMBDA x :
                IF x.ok THEN Ok(x.rest, OpXmmRegister(x.val))
                ELSE Fail)))

\* the instruction parsers (parser.rs:208-276), each an alt in source order
parse_arithmetic_instructions ==
    << <<"mov", "Mov">>, <<"add", "Add">>, <<"sub", "Sub">>,
       <<"inc", "Inc">>, <<"dec", "Dec">>, <<"neg", "Neg">> >>
parse_logic_instructions ==
    << <<"and", "And">>, <<"or", "Or">>, <<"xor", "Xor">>, <<"not", "Not">> >>
parse_shift_rotate_instructions ==
    << <<"shl", "Shl">>, <<"shr", "Shr">>, <<"rol", "Rol">>, <<"ror", "Ror">> >>
parse_stack_instructions ==
    << <<"push", "Push">>, <<"pop", "Pop">> >>
parse_compare_instructions ==
    << <<"cmp", "Cmp">>, <<"test", "Test">> >>
parse_jump_instructions ==
    << <<"jmp", "Jmp">>, <<"je", "Je">>, <<"jne", "Jne">>, <<"jg", "Jg">>,
       <<"jge", "Jge">>, <<"jl", "Jl">>, <<"jle", "Jle">> >>
parse_call_ret_instructions ==
    << <<"call", "Call">>, <<"ret", "Ret">> >>
parse_advanced_instructions ==
    << <<"paddd", "Paddd">>, <<"bsf", "Bsf">>, <<"cmovne", "Cmovne">> >>

\* parse_instruction_type (parser.rs:191-202)
parse_instruction_type(input) ==
    Bind(parse_arithmetic_instructions \o parse_logic_instructions
         \o parse_shift_rotate_instructions \o parse_stack_instructions
         \o parse_compare_instructions \o parse_jump_instructions
         \o parse_call_ret_instructions \o parse_advanced_instructions,
         LAMBDA table : AltTags(table, 1, input))

\* parse_operands (parser.rs:173-188)
parse_operands(input) ==
    \* opt(delimited(space1, operand, space0))
    Bind(space1(input), LAMBDA s1 :
    Bind(IF s1.ok THEN operand(s1.rest) ELSE Fail, LAMBDA o1 :
    Bind(opt(IF o1.ok THEN Ok(space0(o1.rest).rest, o1.val) ELSE Fail, input), LAMBDA first :
    \* opt(delimited(tuple((space0, opt(tag(",")), space0)), operand, space0))
    Bind(space0(first.rest).rest, LAMBDA a :
    Bind(opt(tag(",", a), a).rest, LAMBDA b :
    Bind(operand(space0(b).rest), LAMBDA o2 :
    Bind(opt(IF o2.ok THEN Ok(space0(o2.rest).rest, o2.val) ELSE Fail, first.rest), LAMBDA second :
        Ok(second.rest,
           IF first.val.some /\ second.val.some THEN <<first.val.v, second.val.v>>
           ELSE IF first.val.some THEN <<first.val.v>>
           ELSE << >>))))))))

\* parse_instruction (parser.rs:150-156)
parse_instruction(input) ==
    Bind(space0(input).rest, LAMBDA i1 :
    Bind(parse_instruction_type(i1), LAMBDA t :
        IF ~t.ok THEN Fail
        ELSE Bind(parse_operands(t.rest), LAMBDA o :
                 Ok(o.rest, Instruction(t.val, o.val)))))

\* v * m + d on u64 for small m and d, with the overflow out of bit 63:
\* one digit step of u64::from_str_radix and of str::parse::<usize>
MulAddU64(v, m, d) ==
    LET t1 == v[1] * m + d
        t2 == v[2] * m + (t1 \div 65536)
        t3 == v[3] * m + (t2 \div 65536)
        t4 == v[4] * m + (t3 \div 65536)
    IN  [result   |-> <<t1 % 65536, t2 % 65536, t3 % 65536, t4 % 65536>>,
         overflow |-> t4 >= 65536]

\* a string of digits of the given radix to a u64: [ok, val], not ok on overflow
RECURSIVE ParseU64(_, _, _)
ParseU64(digits, radix, acc) ==
    IF Len(digits) = 0 THEN [ok |-> TRUE, val |-> acc]
    ELSE Bind(MulAddU64(acc, radix, DigitValue(CharAt(digits, 1))), LAMBDA r :
             IF r.overflow THEN [ok |-> FALSE]
             ELSE Bind(Drop(digits, 1), LAMBDA rest : ParseU64(rest, radix, r.result)))

\* usize_decimal (parser.rs:72-74)
usize_decimal(input) ==
    Bind(digit1(input), LAMBDA d :
        IF ~d.ok THEN Fail
        ELSE Bind(ParseU64(d.val, 10, ZeroU64), LAMBDA v :
                 IF v.ok THEN Ok(d.rest, v.val) ELSE Fail))

\* the size option of memory_command (parser.rs:89-93)
MemorySizeOption(input) ==
    Bind(space1(input), LAMBDA s :
    Bind(IF ~s.ok THEN Fail
         ELSE IF tag("-s", s.rest).ok THEN tag("-s", s.rest)
         ELSE tag("--size", s.rest), LAMBDA f :
    Bind(IF f.ok THEN usize_decimal(space0(f.rest).rest) ELSE Fail, LAMBDA n :
        IF n.ok THEN Ok(space0(space0(n.rest).rest).rest, n.val) ELSE Fail)))

\* the format option of memory_command (parser.rs:95-102)
MemoryFormatOption(input) ==
    Bind(space1(input), LAMBDA s :
    Bind(IF ~s.ok THEN Fail
         ELSE AltTags(<< <<"-x", "Hex">>, <<"--hex", "Hex">>,
                         <<"-d", "Decimal">>, <<"--decimal", "Decimal">> >>, 1, s.rest),
         LAMBDA f :
        IF f.ok THEN Ok(space0(f.rest).rest, f.val) ELSE Fail))

\* memory_command (parser.rs:80-109)
memory_command(input) ==
    Bind(tag("memory", input), LAMBDA t :
    Bind(IF t.ok THEN space1(t.rest) ELSE Fail, LAMBDA s :
    Bind(IF s.ok THEN tag("0x", s.rest) ELSE Fail, LAMBDA x :
    Bind(IF x.ok THEN hex_digit1(x.rest) ELSE Fail, LAMBDA h :
    Bind(IF h.ok THEN ParseU64(h.val, 16, ZeroU64) ELSE [ok |-> FALSE], LAMBDA address :
        IF ~address.ok THEN Fail
        ELSE Bind(opt(MemorySizeOption(h.rest), h.rest), LAMBDA size :
             Bind(opt(MemoryFormatOption(size.rest), size.rest), LAMBDA format :
                 Ok(format.rest,
                    [address |-> address.val,
                     size    |-> IF size.val.some THEN size.val.v ELSE U64(16),
                     format  |-> IF format.val.some THEN format.val.v ELSE "Hex"]))))))))

\* parse_input (parser.rs:158-170): the value is an InputType
parse_input(input) ==
    Bind(parse_instruction(input), LAMBDA i :
        IF i.ok THEN Ok(i.rest, [type |-> "Instruction", instruction |-> i.val])
        ELSE Bind(register(input), LAMBDA r :
            IF r.ok THEN
                Bind(opt(tag("-h", r.rest), r.rest), LAMBDA h :
                    Ok(h.rest, [type |-> "Register", register |-> r.val,
                                options |-> [human_readable |-> h.val.some]]))
            ELSE Bind(memory_command(input), LAMBDA m :
                IF m.ok THEN Ok(m.rest, [type |-> "Memory", options |-> m.val])
                ELSE Fail)))

---------------------------------------------------------------------------
(* The encoder adapter (assembler.rs).  The bytes are the encoder          *)
(* library's; the adapter's part is which instructions it accepts, which   *)
(* it rejects with an error string, and which make it panic.               *)

Bytes      == [status |-> "Ok"]
Err(msg)   == [status |-> "Err", msg |-> msg]
AsmPanic   == [status |-> "Panic"]

\* the operand shapes (Register, Immediate) | (Register, Register) of
\* assemble_add and alike; operands[0] and operands[1] are indexed first
AssembleRegImmOrRegReg(instruction, msg) ==
    LET ops == instruction.operands IN
    IF Len(ops) < 2 THEN AsmPanic
    ELSE IF IsRegImm(ops) \/ IsRegReg(ops) THEN Bytes
    ELSE Err(msg)

\* the shape (Register) of assemble_inc and alike; only operands[0] is read
AssembleReg(instruction, msg) ==
    LET ops == instruction.operands IN
    IF Len(ops) < 1 THEN AsmPanic
    ELSE IF ops[1].kind = "Register" THEN Bytes
    ELSE Err(msg)

\* the encoder library takes a shift or rotate count as an 8-bit immediate
\* and rejects an i32 outside -128..255
Imm8Fits(n) == -128 <= n /\ n <= 255

\* the shape (Register, Immediate) of assemble_shl and alike
AssembleShift(instruction, msg) ==
    LET ops == instruction.operands IN
    IF Len(ops) < 2 THEN AsmPanic
    ELSE IF IsRegImm(ops) THEN
        IF Imm8Fits(ops[2].num) THEN Bytes ELSE Err("Invalid signed immediate")
    ELSE Err(msg)

\* AssembleBranch with a register target accepted as well, as the encoder
\* library could encode it
AssembleBranch_accepting_register(instruction, msg) ==
    LET ops == instruction.operands IN
    IF Len(ops) < 1 THEN AsmPanic
    ELSE IF ops[1].kind \in {"Immediate", "Register"} THEN Bytes
    ELSE Err(msg)

\* the shape (Immediate) of assemble_jmp and alike; only operands[0] is read
AssembleBranch(instruction, msg) ==
    LET ops == instruction.operands IN
    IF Len(ops) < 1 THEN AsmPanic
    ELSE IF ops[1].kind = "Immediate" THEN Bytes
    ELSE Err(msg)

\* the shape (Register, Register) behind a length check: assemble_bsf, assemble_cmovne
AssembleRegReg(instruction, lenmsg, msg) ==
    LET ops == instruction.operands IN
    IF Len(ops) # 2 THEN Err(lenmsg)
    ELSE IF IsRegReg(ops) THEN Bytes
    ELSE Err(msg)

\* assemble_mov (assembler.rs:47-65)
assemble_mov(instruction) ==
    LET ops == instruction.operands IN
    IF Len(ops) # 2 THEN Err("MOV instruction requires exactly two operands")
    ELSE IF IsRegImm(ops) \/ IsRegReg(ops) THEN Bytes
    ELSE Err("Invalid operands for mov instruction")

\* assemble_ret (assembler.rs:352-355): the operands are not looked at
assemble_ret(instruction) == Bytes

\* xmm_index_to_register with a register for every u8 index
xmm_index_to_register_of_any_index(index) == index \in 0..255

\* xmm_index_to_register (assembler.rs:377-397): Some for 0..15
xmm_index_to_register(index) == index \in 0..15

\* assemble_paddd (assembler.rs:357-375)
assemble_paddd(instruction) ==
    LET ops == instruction.operands IN
    IF Len(ops) # 2 THEN Err("PADDD instruction requires exactly two operands")
    ELSE IF ops[1].kind = "XmmRegister" /\ ops[2].kind = "XmmRegister" THEN
        IF ~xmm_index_to_register(ops[1].num) THEN Err("Invalid destination XMM register")
        ELSE IF ~xmm_index_to_register(ops[2].num) THEN Err("Invalid source XMM register")
        ELSE Bytes
    ELSE Err("Invalid operands for paddd instruction")

\* assemble_instruction (assembler.rs:6-45), with the assemble_* function
\* of each kind (assembler.rs:47-432) in its arm
assemble_instruction(instruction) ==
    LET t == instruction.instruction_type IN
    CASE t = "Mov"    -> assemble_mov(instruction)
      [] t = "Add"    -> AssembleRegImmOrRegReg(instruction, "Invalid operands for add instruction")
      [] t = "Sub"    -> AssembleRegImmOrRegReg(instruction, "Invalid operands for sub instruction")
      [] t = "And"    -> AssembleRegImmOrRegReg(instruction, "Invalid operands for and instruction")
      [] t = "Or"     -> AssembleRegImmOrRegReg(instruction, "Invalid operands for or instruction")
      [] t = "Xor"    -> AssembleRegImmOrRegReg(instruction, "Invalid operands for xor instruction")
      [] t = "Inc"    -> AssembleReg(instruction, "Invalid operand for inc instruction")
      [] t = "Dec"    -> AssembleReg(instruction, "Invalid operand for dec instruction")
      [] t = "Neg"    -> AssembleReg(instruction, "Invalid operand for neg instruction")
      [] t = "Not"    -> AssembleReg(instruction, "Invalid operand for not instruction")
      [] t = "Shl"    -> AssembleShift(instruction, "Invalid operands for shl instruction")
      [] t = "Shr"    -> AssembleShift(instruction, "Invalid operands for shr instruction")
      [] t = "Rol"    -> AssembleShift(instruction, "Invalid operands for rol instruction")
      [] t = "Ror"    -> AssembleShift(instruction, "Invalid operands for ror instruction")
      [] t = "Push"   -> AssembleReg(instruction, "Invalid operand for push instruction")
      [] t = "Pop"    -> AssembleReg(instruction, "Invalid operand for pop instruction")
      [] t = "Cmp"    -> AssembleRegImmOrRegReg(instruction, "Invalid operands for cmp instruction")
      [] t = "Test"   -> AssembleRegImmOrRegReg(instruction, "Invalid operands for test instruction")
      [] t = "Jmp"    -> AssembleBranch(instruction, "Invalid operand for jmp instruction")
      [] t = "Je"     -> AssembleBranch(instruction, "Invalid operand for je instruction")
      [] t = "Jne"    -> AssembleBranch(instruction, "Invalid operand for jne instruction")
      [] t = "Jg"     -> AssembleBranch(instruction, "Invalid operand for jg instruction")
      [] t = "Jge"    -> AssembleBranch(instruction, "Invalid operand for jge instruction")
      [] t = "Jl"     -> AssembleBranch(instruction, "Invalid operand for jl instruction")
      [] t = "Jle"    -> AssembleBranch(instruction, "Invalid operand for jle instruction")
      [] t = "Call"   -> AssembleBranch(instruction, "Invalid operand for call instruction")
      [] t = "Ret"    -> assemble_ret(instruction)
      [] t = "Paddd"  -> assemble_paddd(instruction)
      [] t = "Bsf"    -> AssembleRegReg(instruction, "BSF instruction requires exactly two operands",
                                        "Invalid operands for bsf instruction")
      [] t = "Cmovne" -> AssembleRegReg(instruction, "CMOVNE instruction requires exactly two operands",
                                        "Invalid operands for cmovne instruction")

---------------------------------------------------------------------------
(* The prompt loop (main.rs) *)

\* An entry of log: one processed line or one executed instruction, with
\* the CpuState before and after it.  outcome is one of "Executed",
\* "EncodeError", "ParseError", "Panic", "RegisterQuery", "MemoryQuery",
\* "Meta", "Buffered", "Run", "RunRejected", "Calculator", "Script".
NoInstruction == Instruction("-", << >>)
Entry(line, instruction, outcome, before, after) ==
    [line |-> line, instruction |-> instruction, outcome |-> outcome,
     before |-> before, after |-> after]

\* process_instruction with the execution outside the Ok arm: a rejected
\* instruction is reported and executed all the same
process_instruction_executing_rejected(instruction, c) ==
    Bind(assemble_instruction(instruction), LAMBDA a :
        IF a.status = "Panic" THEN [cpu |-> c, outcome |-> "Panic"]
        ELSE Bind(execute(c, instruction), LAMBDA r :
                 [cpu |-> r.cpu,
                  outcome |-> IF r.panic THEN "Panic"
                              ELSE IF a.status = "Err" THEN "EncodeError" ELSE "Executed"]))

\* process_instruction with an encoder that reads the CPU: it assembles at
\* the address in RIP and accepts address 0 only
process_instruction_encoding_at_rip(instruction, c) ==
    Bind(assemble_instruction(instruction), LAMBDA a :
        IF a.status = "Panic" THEN [cpu |-> c, outcome |-> "Panic"]
        ELSE IF a.status = "Err" \/ c.rip # ZeroU64 THEN [cpu |-> c, outcome |-> "EncodeError"]
        ELSE Bind(execute(c, instruction), LAMBDA r :
                 [cpu |-> r.cpu, outcome |-> IF r.panic THEN "Panic" ELSE "Executed"]))

\* process_instruction with `cpu.execute(instruction)` written twice in
\* the Ok arm
process_instruction_executing_twice(instruction, c) ==
    Bind(assemble_instruction(instruction), LAMBDA a :
        IF a.status = "Panic" THEN [cpu |-> c, outcome |-> "Panic"]
        ELSE IF a.status = "Err" THEN [cpu |-> c, outcome |-> "EncodeError"]
        ELSE Bind(execute(c, instruction), LAMBDA r1 :
             IF r1.panic THEN [cpu |-> r1.cpu, outcome |-> "Panic"]
             ELSE Bind(execute(r1.cpu, instruction), LAMBDA r :
                 [cpu |-> r.cpu, outcome |-> IF r.panic THEN "Panic" ELSE "Executed"])))

\* process_instruction executing the instruction whatever the encoder says
process_instruction_ignoring_encoder(instruction, c) ==
    Bind(assemble_instruction(instruction), LAMBDA a :
        IF a.status = "Panic" THEN [cpu |-> c, outcome |-> "Panic"]
        ELSE Bind(execute(c, instruction), LAMBDA r :
                 [cpu |-> r.cpu, outcome |-> IF r.panic THEN "Panic" ELSE "Executed"]))

\* process_instruction (main.rs:182-191)
process_instruction(instruction, c) ==
    Bind(assemble_instruction(instruction), LAMBDA a :
        IF a.status = "Panic" THEN [cpu |-> c, outcome |-> "Panic"]
        ELSE IF a.status = "Err" THEN [cpu |-> c, outcome |-> "EncodeError"]
        ELSE Bind(execute(c, instruction), LAMBDA r :
                 [cpu |-> r.cpu, outcome |-> IF r.panic THEN "Panic" ELSE "Executed"]))

\* CPU::dump_memory (cpu.rs:70-91) prints only; with overflow checks the
\* sums `address + (i * 16)` and `address + (i * 16) + j` panic when a row
\* i < size / 16 reaches past 2^64 - 1
dump_memory_panics(options) ==
    Bind(ShiftRight(options.size, 4), LAMBDA rows :
    Bind(OverflowingSub(rows, U64(1)).result, LAMBDA rows1 :
    Bind(ShiftLeft(rows1, 4), LAMBDA last :
    Bind(OverflowingAdd(options.address, last), LAMBDA base :
        /\ overflow_checks
        /\ rows # ZeroU64
        /\ base.overflow \/ OverflowingAdd(base.result, U64(15)).overflow))))

\* handle_single_instruction (main.rs:150-164)
handle_single_instruction(input, c) ==
    Bind(parse_input(input), LAMBDA p :
        IF ~p.ok THEN [cpu |-> c, outcome |-> "ParseError", instruction |-> NoInstruction]
        ELSE IF p.val.type = "Instruction" THEN
            Bind(process_instruction(p.val.instruction, c), LAMBDA r :
                [cpu |-> r.cpu, outcome |-> r.outcome, instruction |-> p.val.instruction])
        ELSE IF p.val.type = "Register" THEN
            [cpu |-> c, outcome |-> "RegisterQuery", instruction |-> NoInstruction]
        ELSE [cpu |-> c, instruction |-> NoInstruction,
              outcome |-> IF dump_memory_panics(p.val.options) THEN "Panic" ELSE "MemoryQuery"])

\* execute_multi_instructions (main.rs:166-180), from the i-th buffered
\* line on: the CPU it leaves and the entries of the lines it processed
RECURSIVE execute_multi_instructions(_, _, _)
execute_multi_instructions(c, instructions, i) ==
    IF i > Len(instructions) THEN [cpu |-> c, entries |-> << >>, panic |-> FALSE]
    ELSE Bind(parse_instruction(instructions[i]), LAMBDA p :
         IF ~p.ok THEN
             [cpu |-> c, panic |-> FALSE,
              entries |-> <<Entry(instructions[i], NoInstruction, "ParseError", c, c)>>]
         ELSE Bind(process_instruction(p.val, c), LAMBDA r :
              Bind(Entry(instructions[i], p.val, r.outcome, c, r.cpu), LAMBDA e :
                  IF r.outcome = "Panic"
                  THEN [cpu |-> r.cpu, entries |-> <<e>>, panic |-> TRUE]
                  ELSE Bind(execute_multi_instructions(r.cpu, instructions, i + 1), LAMBDA rest :
                           [cpu |-> rest.cpu, entries |-> <<e>> \o rest.entries,
                            panic |-> rest.panic]))))

\* str::trim (main.rs:62)
White == Space \cup {"\n", "\r"}
RECURSIVE TrimEnd(_)
TrimEnd(line) ==
    IF Len(line) > 0 /\ CharAt(line, Len(line)) \in White
    THEN TrimEnd(SubSeq(line, 1, Len(line) - 1)) ELSE line
Trim(line) == Bind(LeadingCount(line, White), LAMBDA n : TrimEnd(Drop(line, n)))

MetaCommands == {"exit", "help", "cpu", "state", ":single", ":multi", ":calc", ":script", "run"}

\* the number of lines a session reads in the model
MaxSteps == 3

CanRead == session = "running" /\ steps < MaxSteps

\* "exit" => break (main.rs:64)
Exit(line) ==
    /\ CanRead /\ Trim(line) = "exit"
    /\ session' = "exited"
    /\ UNCHANGED <<cpu, overflow_checks, repl_mode, code_buffer, log, steps>>

\* "help", "cpu", "state": print only (main.rs:65-67)
Display(line) ==
    /\ CanRead /\ Trim(line) \in {"help", "cpu", "state"}
    /\ log' = <<Entry(Trim(line), NoInstruction, "Meta", cpu, cpu)>>
    /\ steps' = steps + 1
    /\ UNCHANGED <<cpu, overflow_checks, repl_mode, code_buffer, session>>

\* a mode switch that also clears the buffer
SwitchMode_clearing_buffer(line) ==
    /\ CanRead /\ Trim(line) \in {":single", ":multi", ":calc", ":script"}
    /\ repl_mode' = CASE Trim(line) = ":single" -> "Single"
                      [] Trim(line) = ":multi"  -> "Multi"
                      [] Trim(line) = ":calc"   -> "Calculator"
                      [] Trim(line) = ":script" -> "Script"
    /\ code_buffer' = << >>
    /\ log' = <<Entry(Trim(line), NoInstruction, "Meta", cpu, cpu)>>
    /\ steps' = steps + 1
    /\ UNCHANGED <<cpu, overflow_checks, session>>

\* ":single", ":multi", ":calc", ":script" (main.rs:68-83)
SwitchMode(line) ==
    /\ CanRead /\ Trim(line) \in {":single", ":multi", ":calc", ":script"}
    /\ repl_mode' = CASE Trim(line) = ":single" -> "Single"
                      [] Trim(line) = ":multi"  -> "Multi"
                      [] Trim(line) = ":calc"   -> "Calculator"
                      [] Trim(line) = ":script" -> "Script"
    /\ log' = <<Entry(Trim(line), NoInstruction, "Meta", cpu, cpu)>>
    /\ steps' = steps + 1
    /\ UNCHANGED <<cpu, overflow_checks, code_buffer, session>>

\* "run" in multi mode without `code_buffer.clear()`: the lines stay
\* buffered after they ran
Run_keeping_buffer(line) ==
    /\ CanRead /\ Trim(line) = "run" /\ repl_mode = "Multi"
    /\ \E r \in {execute_multi_instructions(cpu, code_buffer, 1)} :
       /\ cpu' = r.cpu
       /\ session' = IF r.panic THEN "panicked" ELSE session
       /\ log' = <<Entry("run", NoInstruction, "Run", cpu, cpu)>> \o r.entries
    /\ steps' = steps + 1
    /\ UNCHANGED <<overflow_checks, repl_mode, code_buffer>>

\* "run" in multi mode (main.rs:84-88)
Run(line) ==
    /\ CanRead /\ Trim(line) = "run" /\ repl_mode = "Multi"
    /\ \E r \in {execute_multi_instructions(cpu, code_buffer, 1)} :
       /\ cpu' = r.cpu
       /\ session' = IF r.panic THEN "panicked" ELSE session
       /\ code_buffer' = IF r.panic THEN code_buffer ELSE << >>
       /\ log' = <<Entry("run", NoInstruction, "Run", cpu, cpu)>> \o r.entries
    /\ steps' = steps + 1
    /\ UNCHANGED <<overflow_checks, repl_mode>>

\* "run" outside multi mode (main.rs:89)
RunRejected(line) ==
    /\ CanRead /\ Trim(line) = "run" /\ repl_mode # "Multi"
    /\ log' = <<Entry("run", NoInstruction, "RunRejected", cpu, cpu)>>
    /\ steps' = steps + 1
    /\ UNCHANGED <<cpu, overflow_checks, repl_mode, code_buffer, session>>

\* any other line in single mode (main.rs:94)
SingleLine(line) ==
    /\ CanRead /\ Trim(line) \notin MetaCommands /\ repl_mode = "Single"
    /\ \E r \in {handle_single_instruction(Trim(line), cpu)} :
       /\ cpu' = r.cpu
       /\ session' = IF r.outcome = "Panic" THEN "panicked" ELSE session
       /\ log' = <<Entry(Trim(line), r.instruction, r.outcome, cpu, r.cpu)>>
    /\ steps' = steps + 1
    /\ UNCHANGED <<overflow_checks, repl_mode, code_buffer>>

\* any other line in multi mode (main.rs:95)
MultiLine(line) ==
    /\ CanRead /\ Trim(line) \notin MetaCommands /\ repl_mode = "Multi"
    /\ code_buffer' = Append(code_buffer, Trim(line))
    /\ log' = <<Entry(Trim(line), NoInstruction, "Buffered", cpu, cpu)>>
    /\ steps' = steps + 1
    /\ UNCHANGED <<cpu, overflow_checks, repl_mode, session>>

\* any other line in calculator mode (main.rs:96-101): calculate borrows
\* the CPU immutably and its result is printed
CalculatorLine(line) ==
    /\ CanRead /\ Trim(line) \notin MetaCommands /\ repl_mode = "Calculator"
    /\ log' = <<Entry(Trim(line), NoInstruction, "Calculator", cpu, cpu)>>
    /\ steps' = steps + 1
    /\ UNCHANGED <<cpu, overflow_checks, repl_mode, code_buffer, session>>

\* any other line in script mode (main.rs:102-107): execute_script borrows
\* the CPU immutably and its result is printed
ScriptLine(line) ==
    /\ CanRead /\ Trim(line) \notin MetaCommands /\ repl_mode = "Script"
    /\ log' = <<Entry(Trim(line), NoInstruction, "Script", cpu, cpu)>>
    /\ steps' = steps + 1
    /\ UNCHANGED <<cpu, overflow_checks, repl_mode, code_buffer, session>>

\* Ctrl-C, Ctrl-D or a read error at the prompt (main.rs:112-123)
Interrupted ==
    /\ session = "running"
    /\ session' = "exited"
    /\ UNCHANGED <<cpu, overflow_checks, repl_mode, code_buffer, log, steps>>

\* the state at the first prompt (main.rs:36-41); the build profile is
\* fixed for the whole session
Init ==
    /\ cpu = NewCPU
    /\ overflow_checks \in BOOLEAN
    /\ repl_mode = "Single"
    /\ code_buffer = << >>
    /\ session = "running"
    /\ log = << >>
    /\ steps = 0

\* the lines typed in the model
Lines ==
    {"mov rax 5", "mov rsp 2000000", "push rax", "pop rbx", "bsf rcx rdx",
     "inc rax rbx", "ret rax", "add rax", "jge 5", "jne 0", "call 0", "ret",
     "mov rax", "push 5", "paddd xmm16 xmm0", "shl rax 300", "mov rax -5",
     "hello", "rax", "memory 0x10 -s 32", "memory 0x20 -s 32 -d", "  sub rax, 7 ",
     "exit", "help", ":single", ":multi", ":calc", ":script", "run"}

Next ==
    \/ \E line \in Lines : Exit(line)
    \/ \E line \in Lines : Display(line)
    \/ \E line \in Lines : SwitchMode(line)
    \/ \E line \in Lines : Run(line)
    \/ \E line \in Lines : RunRejected(line)
    \/ \E line \in Lines : SingleLine(line)
    \/ \E line \in Lines : MultiLine(line)
    \/ \E line \in Lines : CalculatorLine(line)
    \/ \E line \in Lines : ScriptLine(line)
    \/ Interrupted

Spec == Init /\ [][Next]_vars

\* The session from the prompt that follows `:multi` on a fresh CPU: lines
\* are buffered and `run` executes them; steps counts the lines typed from
\* there on
InitMulti ==
    /\ cpu = NewCPU
    /\ overflow_checks \in BOOLEAN
    /\ repl_mode = "Multi"
    /\ code_buffer = << >>
    /\ session = "running"
    /\ log = <<Entry(":multi", NoInstruction, "Meta", NewCPU, NewCPU)>>
    /\ steps = 0

\* the lines typed in multi mode: two that execute, one that the encoder
\* adapter rejects, one that does not parse, and `run`
BatchLines == {"mov rax 5", "inc rbx", "push 5", "hello", "run"}

SpecMulti == InitMulti /\ [][\E line \in BatchLines : MultiLine(line) \/ Run(line)]_vars

---------------------------------------------------------------------------
(* The interpreter on its own: CPU::execute applied to the instructions of *)
(* a program, one after the other, without the parser and the encoder.     *)
(* An i32 immediate can be negative here, which no typed line can give.    *)

\* CPU::execute on program[i], program[i+1], ...: the CPU it leaves and one
\* entry per instruction; a panic ends it
RECURSIVE execute_program(_, _, _)
execute_program(c, program, i) ==
    IF i > Len(program) THEN [cpu |-> c, entries |-> << >>, panic |-> FALSE]
    ELSE Bind(execute(c, program[i]), LAMBDA r :
         Bind(Entry("", program[i], IF r.panic THEN "Panic" ELSE "Executed", c, r.cpu), LAMBDA e :
             IF r.panic THEN [cpu |-> r.cpu, entries |-> <<e>>, panic |-> TRUE]
             ELSE Bind(execute_program(r.cpu, program, i + 1), LAMBDA rest :
                      [cpu |-> rest.cpu, entries |-> <<e>> \o rest.entries,
                       panic |-> rest.panic])))

\* the number of programs run on one CPU in the model
MaxPrograms == 2

ExecuteProgram(program) ==
    /\ session = "running" /\ steps < MaxPrograms
    /\ \E r \in {execute_program(cpu, program, 1)} :
       /\ cpu' = r.cpu
       /\ session' = IF r.panic THEN "panicked" ELSE session
       /\ log' = r.entries
    /\ steps' = steps + 1
    /\ UNCHANGED <<overflow_checks, repl_mode, code_buffer>>


\* the instructions of the programs
RegImm(t, r, imm) == Instruction(t, <<OpRegister(r), OpImmediate(imm)>>)
Reg(t, r)         == Instruction(t, <<OpRegister(r)>>)
Imm(t, imm)       == Instruction(t, <<OpImmediate(imm)>>)

\* MOV r, imm for every register and the ends of the i32 range, with a SUB
\* and a PUSH that make the flags and the memory differ from a fresh CPU's
MovPrograms ==
    {<<RegImm("Mov", r, imm)>> : r \in Register, imm \in {-2147483647 - 1, -1, 2147483647}}
    \cup {<<RegImm("Sub", "Rax", 1)>>, <<Reg("Push", "Rbx")>>}

SpecMov == Init /\ [][\E program \in MovPrograms : ExecuteProgram(program)]_vars

\* PUSH r; MOV r, w; POP r for every register, after MOV r, v
StackPrograms ==
    {<<RegImm("Mov", r, v)>> : r \in Register, v \in {-1, 4096}}
    \cup {<<Reg("Push", r), RegImm("Mov", r, w), Reg("Pop", r)>> :
              r \in Register, w \in {16, -2}}

SpecStack == Init /\ [][\E program \in StackPrograms : ExecuteProgram(program)]_vars

\* CALL imm; RET for the ends of the range of targets, after MOVs that
\* change RSP and RAX
CallPrograms ==
    {<<Imm("Call", imm), Instruction("Ret", << >>)>> : imm \in {0, 1, 5, 2147483647}}
    \cup {<<RegImm("Mov", r, v)>> : r \in {"Rax", "Rbx", "Rsp"}, v \in {8, 4096, -1}}

SpecCall == Init /\ [][\E program \in CallPrograms : ExecuteProgram(program)]_vars

\* BSF, CMP, ADD and SUB on RAX and RBX, which two MOVs (and a SHL, for
\* BSF) set first: sources with their lowest set bit at 0, 2, 31, 33 and 63
\* or with none, equal and unequal operands, sums that carry and
\* differences that borrow
AluPrograms ==
    {<<RegImm("Mov", "Rax", IF p[2] = "Rax" THEN x[1] ELSE 7),
       RegImm("Mov", "Rbx", IF p[2] = "Rbx" THEN x[1] ELSE 7),
       RegImm("Shl", p[2], x[2]),
       Instruction("Bsf", <<OpRegister(p[1]), OpRegister(p[2])>>)>> :
         p \in {<<"Rax", "Rbx">>, <<"Rbx", "Rax">>, <<"Rax", "Rax">>},
         x \in {<<0, 0>>, <<1, 0>>, <<1, 63>>, <<-4, 31>>, <<-4, 63>>}}
    \cup {<<RegImm("Mov", "Rax", 5), RegImm("Mov", "Rbx", vb), RegImm(t, "Rbx", imm)>> :
              t \in {"Cmp", "Add", "Sub"}, vb \in {-1, 5}, imm \in {-1, 1, 5}}
    \cup {<<RegImm("Mov", "Rax", v[1]), RegImm("Mov", "Rbx", v[2]),
            Instruction(t, <<OpRegister(p[1]), OpRegister(p[2])>>)>> :
              t \in {"Cmp", "Add", "Sub"},
              p \in {<<"Rax", "Rbx">>, <<"Rbx", "Rbx">>},
              v \in {<<-1, -1>>, <<5, -1>>, <<-1, 5>>}}

SpecAlu == Init /\ [][\E program \in AluPrograms : ExecuteProgram(program)]_vars

\* PADDD on xmm0, xmm1 and xmm15, with a SUB that changes the flags
PadddPrograms ==
    {<<Instruction("Paddd", <<OpXmmRegister(p[1]), OpXmmRegister(p[2])>>)>> :
         p \in {<<0, 1>>, <<1, 0>>, <<1, 1>>, <<15, 0>>, <<0, 15>>}}
    \cup {<<RegImm("Sub", "Rax", 1)>>}

\* a CPU as CPU::new leaves it but for xmm0 and xmm1, which are public
\* fields that no instruction other than PADDD writes: their four 32-bit
\* parts are drawn from values whose sums carry out of a part
InitPaddd ==
    /\ \E x \in {<< <<65535, 65535, 1, 0, 0, 32768, 65535, 32767>>,
                    <<1, 0, 65535, 65535, 0, 32768, 1, 0>> >>,
                 << <<1, 0, 65535, 65535, 0, 32768, 1, 0>>,
                    <<65535, 65535, 65535, 65535, 65535, 65535, 65535, 65535>> >>} :
           cpu = [NewCPU EXCEPT !.xmm[0] = x[1], !.xmm[1] = x[2]]
    /\ overflow_checks \in BOOLEAN
    /\ repl_mode = "Single"
    /\ code_buffer = << >>
    /\ session = "running"
    /\ log = << >>
    /\ steps = 0

SpecPaddd == InitPaddd /\ [][\E program \in PadddPrograms : ExecuteProgram(program)]_vars

\* AND, OR, XOR and TEST with a register and with an immediate source, and
\* NOT, INC, DEC and NEG applied twice, on RAX and RBX, which two MOVs set
\* first: results that are zero, negative and positive, an INC that
\* carries, a DEC and a NEG that borrow, and destinations RAX and not RAX
LogicPrograms ==
    {<<RegImm("Mov", "Rax", v[1]), RegImm("Mov", "Rbx", v[2]),
       Instruction(t, <<OpRegister(p[1]), OpRegister(p[2])>>)>> :
         t \in {"And", "Or", "Xor", "Test"},
         p \in {<<"Rax", "Rbx">>, <<"Rbx", "Rbx">>},
         v \in {<<-1, 5>>, <<5, -6>>}}
    \cup {<<RegImm("Mov", "Rax", 5), RegImm("Mov", "Rbx", 5), RegImm(t, "Rbx", imm)>> :
              t \in {"And", "Or", "Xor", "Test"}, imm \in {-6, 5}}
    \cup {<<RegImm("Mov", "Rax", IF r = "Rax" THEN v ELSE 7),
            RegImm("Mov", "Rbx", IF r = "Rbx" THEN v ELSE 7),
            Reg(t, r), Reg(t, r)>> :
              t \in {"Not", "Inc", "Dec", "Neg"}, r \in {"Rax", "Rbx"}, v \in {-1, 0, 5}}

SpecLogic == Init /\ [][\E program \in LogicPrograms : ExecuteProgram(program)]_vars

\* SHL and SHR by counts on both sides of 64, ROL then ROR (and ROR then
\* ROL) by the same count, CMOVNE after a CMP that sets or clears ZF, and
\* JMP to the ends of the range of targets
ShiftPrograms ==
    {<<RegImm("Mov", "Rax", 5), RegImm("Mov", "Rbx", -3), RegImm(t, r, n)>> :
         t \in {"Shl", "Shr"}, r \in {"Rax", "Rbx"}, n \in {0, 1, 63, 64, 255}}
    \cup {<<RegImm("Mov", "Rax", 5), RegImm("Mov", "Rbx", -2147483643),
            RegImm(t[1], "Rbx", n), RegImm(t[2], "Rbx", n)>> :
              t \in {<<"Rol", "Ror">>, <<"Ror", "Rol">>},
              n \in {0, 1, 63, 64, 65, 2147483647}}
    \cup {<<RegImm("Mov", "Rax", 5), RegImm("Mov", "Rbx", -3), RegImm("Cmp", "Rax", imm),
            Instruction("Cmovne", <<OpRegister(p[1]), OpRegister(p[2])>>)>> :
              imm \in {5, 6}, p \in {<<"Rax", "Rbx">>, <<"Rbx", "Rax">>, <<"Rcx", "Rbx">>}}
    \cup {<<Imm("Jmp", imm)>> : imm \in {0, 1, 5, 2147483647}}

SpecShift == Init /\ [][\E program \in ShiftPrograms : ExecuteProgram(program)]_vars

\* CPU::execute is public and takes any Instruction: every kind with every
\* operand list of length 0..2 over a register, an immediate and an XMM
\* index, whether or not the parser and the encoder let it through
ShapeOperands == {OpRegister("Rbx"), OpImmediate(1), OpXmmRegister(1)}

ShapeInstructions ==
    {Instruction(t, ops) :
         t \in InstructionType,
         ops \in {<< >>} \cup {<<a>> : a \in ShapeOperands}
                    \cup {<<a, b>> : a \in ShapeOperands, b \in ShapeOperands}}

\* the number of instructions applied to one CPU in SpecShape
MaxShapeSteps == 1

ExecuteInstruction(instruction) ==
    /\ session = "running" /\ steps < MaxShapeSteps
    /\ \E r \in {execute_program(cpu, <<instruction>>, 1)} :
       /\ cpu' = r.cpu
       /\ session' = IF r.panic THEN "panicked" ELSE session
       /\ log' = r.entries
    /\ steps' = steps + 1
    /\ UNCHANGED <<overflow_checks, repl_mode, code_buffer>>

\* a fresh CPU, or the CPU one instruction later: after DEC rbx (SF and OF
\* set, RBX = 2^64 - 1) or after XOR rbx, rbx (ZF set)
InitShape ==
    /\ cpu \in {NewCPU,
                execute(NewCPU, Reg("Dec", "Rbx")).cpu,
                execute(NewCPU, Instruction("Xor", <<OpRegister("Rbx"), OpRegister("Rbx")>>)).cpu}
    /\ overflow_checks \in BOOLEAN
    /\ repl_mode = "Single"
    /\ code_buffer = << >>
    /\ session = "running"
    /\ log = << >>
    /\ steps = 0

SpecShape == InitShape /\ [][\E instruction \in ShapeInstructions : ExecuteInstruction(instruction)]_vars

\* lines that name r8 .. r15: as a register query, with and without -h, as
\* the destination and as the source of a MOV
NumberedNames == {"r8", "r9", "r10", "r11", "r12", "r13", "r14", "r15"}

RegisterLines ==
    NumberedNames \cup {"r12-h", "r9-h"}
    \cup {"mov " \o n \o " 7" : n \in NumberedNames}
    \cup {"mov rax " \o n : n \in NumberedNames}

SpecRegisters == Init /\ [][\E line \in RegisterLines : SingleLine(line)]_vars

\* two or three PUSHes followed by as many POPs, after MOVs that set the
\* registers pushed: POPs into other registers, into the registers pushed
\* in the same and in the reverse order, and twice into one register; and
\* MOVs that put RSP at the bottom of memory
LifoPrograms ==
    {<<RegImm("Mov", "Rax", 5), RegImm("Mov", "Rbx", -1),
       Reg("Push", p[1]), Reg("Push", p[2]), Reg("Pop", p[3]), Reg("Pop", p[4])>> :
         p \in {<<"Rax", "Rbx", "Rcx", "Rdx">>, <<"Rax", "Rbx", "Rax", "Rbx">>,
                <<"Rax", "Rbx", "Rbx", "Rax">>, <<"Rax", "Rax", "Rcx", "Rdx">>,
                <<"Rax", "Rbx", "Rcx", "Rcx">>, <<"Rbx", "Rax", "R15", "R8">>}}
    \cup {<<RegImm("Mov", "Rax", 5), RegImm("Mov", "Rbx", -1), RegImm("Mov", "Rcx", 9),
            Reg("Push", "Rax"), Reg("Push", "Rbx"), Reg("Push", "Rcx"),
            Reg("Pop", "Rdx"), Reg("Pop", "Rsi"), Reg("Pop", "Rdi")>>}
    \cup {<<RegImm("Mov", "Rsp", v)>> : v \in {8, 16, 24, 4096}}

SpecLifo == Init /\ [][\E program \in LifoPrograms : ExecuteProgram(program)]_vars

\* The session from a prompt outside multi mode, after two lines were
\* buffered in multi mode and the mode was left (main.rs:68-83, 95): the
\* buffer holds the lines, no instruction has been executed yet; steps
\* counts the lines typed from there on
SwitchLines == {":single", ":multi", ":calc", ":script", "run", "inc rax", "hello"}

InitSwitch ==
    /\ cpu = NewCPU
    /\ overflow_checks \in BOOLEAN
    /\ \E switch \in {":single", ":calc", ":script"} :
       /\ repl_mode = CASE switch = ":single" -> "Single"
                        [] switch = ":calc"   -> "Calculator"
                        [] switch = ":script" -> "Script"
       /\ log = <<Entry(switch, NoInstruction, "Meta", NewCPU, NewCPU)>>
    /\ code_buffer \in {<<"mov rax 5", "inc rax">>, <<"inc rax", "mov rax 5">>,
                        <<"push 5", "inc rax">>, <<"hello", "inc rax">>}
    /\ session = "running"
    /\ steps = 0

SpecSwitch ==
    InitSwitch /\ [][\E line \in SwitchLines :
                        \/ SwitchMode(line) \/ Run(line) \/ RunRejected(line)
                        \/ SingleLine(line) \/ MultiLine(line)
                        \/ CalculatorLine(line) \/ ScriptLine(line)]_vars

---------------------------------------------------------------------------
(* Properties *)

\* a <= b on u64
LessEqU64(a, b) == ~LessU64(b, a)

\* the bit of RFLAGS whose weight is a power of two below 2^16
RflagsBit(c, weight) == (c.rflags[1] \div weight) % 2 = 1

FlagsMirrored(c) ==
    /\ RflagsBit(c, 1) = c.cf
    /\ RflagsBit(c, 64) = c.zf
    /\ RflagsBit(c, 128) = c.sf
    /\ RflagsBit(c, 2048) = c.of

FlagInstructions ==
    {"Add", "Sub", "And", "Or", "Xor", "Not", "Inc", "Dec", "Neg",
     "Shl", "Shr", "Rol", "Ror", "Cmp", "Test", "Bsf"}

\* C1: after each executed instruction that changes a flag (BSF among
\* them), bits 0, 6, 7 and 11 of RFLAGS equal CF, ZF, SF and OF.
RflagsMirrorsFlags ==
    \A i \in DOMAIN log :
        (/\ log[i].outcome = "Executed"
         /\ log[i].instruction.instruction_type \in FlagInstructions)
        => FlagsMirrored(log[i].after)

\* C2: between the instructions of a session RSP is at most 1 MiB, also
\* after an accepted instruction whose destination is RSP.
RspInsideMemory ==
    /\ \A i \in DOMAIN log :
           log[i].outcome = "Executed"
           => LessEqU64(GetReg(log[i].after, "Rsp"), U64(MemorySize))
    /\ session # "panicked" => LessEqU64(GetReg(cpu, "Rsp"), U64(MemorySize))

\* C3: no line aborts the session: after every line the session is at the
\* prompt again, or it has ended by exit, EOF or an interrupt.
NoLineAbortsSession == session \in {"running", "exited"}

\* the operand shapes of the arity table, per instruction kind
ShapeOf(ops) == [i \in DOMAIN ops |-> ops[i].kind]
ShapeTable(t) ==
    IF t \in {"Mov", "Add", "Sub", "And", "Or", "Xor", "Cmp", "Test"}
        THEN {<<"Register", "Immediate">>, <<"Register", "Register">>}
    ELSE IF t \in {"Inc", "Dec", "Neg", "Not", "Push", "Pop"} THEN {<<"Register">>}
    ELSE IF t \in {"Shl", "Shr", "Rol", "Ror"} THEN {<<"Register", "Immediate">>}
    ELSE IF t \in {"Jmp", "Je", "Jne", "Jg", "Jge", "Jl", "Jle", "Call"} THEN {<<"Immediate">>}
    ELSE IF t = "Ret" THEN {<< >>}
    ELSE IF t = "Paddd" THEN {<<"XmmRegister", "XmmRegister">>}
    ELSE {<<"Register", "Register">>}

\* C4: a parsed instruction whose operand list is not a row of the arity
\* table for its kind (too many operands included) is answered with an
\* error and leaves the whole CpuState unchanged.
ArityEnforced ==
    \A i \in DOMAIN log :
        (/\ log[i].instruction.instruction_type \in InstructionType
         /\ ShapeOf(log[i].instruction.operands)
                \notin ShapeTable(log[i].instruction.instruction_type))
        => /\ log[i].outcome = "EncodeError"
           /\ log[i].after = log[i].before

\* the stack slot below RSP is inside memory
SlotBelowInsideMemory(c) ==
    /\ ~OverflowingSub(GetReg(c, "Rsp"), U64(8)).overflow
    /\ SliceInRange(OverflowingSub(GetReg(c, "Rsp"), U64(8)).result)

\* the last step ran PUSH r; MOV r, imm; POP r to its end, with r in regs
\* and the slot below RSP inside memory at its start
RanPushClobberPop(regs) ==
    /\ Len(log) = 3
    /\ \A i \in 1..3 : log[i].outcome = "Executed"
    /\ log[1].instruction.instruction_type = "Push"
    /\ log[2].instruction.instruction_type = "Mov"
    /\ log[3].instruction.instruction_type = "Pop"
    /\ log[1].instruction.operands[1].reg \in regs
    /\ log[2].instruction.operands[1] = log[1].instruction.operands[1]
    /\ log[3].instruction.operands[1] = log[1].instruction.operands[1]
    /\ SlotBelowInsideMemory(log[1].before)

RoundTripRestores ==
    /\ GetReg(log[3].after, log[1].instruction.operands[1].reg)
           = GetReg(log[1].before, log[1].instruction.operands[1].reg)
    /\ GetReg(log[3].after, "Rsp") = GetReg(log[1].before, "Rsp")

\* C5 as stated: for every register r, RSP included, PUSH r; overwrite r;
\* POP r leaves GPR[r] and RSP as they were before the PUSH.
StackRoundTripEveryRegister ==
    RanPushClobberPop(Register) => RoundTripRestores

\* C5 as amended: for every register r other than RSP, PUSH r; overwrite
\* r; POP r leaves GPR[r] and RSP as they were before the PUSH.
StackRoundTripExceptRsp ==
    RanPushClobberPop(Register \ {"Rsp"}) => RoundTripRestores

\* a round trip of a value that a MOV had set, through an overwrite that
\* changed it
StackRoundTripHappened ==
    /\ RanPushClobberPop(Register \ {"Rsp"})
    /\ GetReg(log[1].before, log[1].instruction.operands[1].reg) # ZeroU64
    /\ GetReg(log[2].after, log[1].instruction.operands[1].reg)
           # GetReg(log[1].before, log[1].instruction.operands[1].reg)
    /\ RoundTripRestores

\* C6: CALL imm; RET from a state whose slot below RSP is inside memory
\* runs to its end and leaves RIP one past its value before the CALL and
\* RSP at its value before the CALL, for every imm from 0 on.
CallRetRoundTrip ==
    (/\ Len(log) >= 1
     /\ log[1].instruction.instruction_type = "Call"
     /\ SlotBelowInsideMemory(log[1].before))
    => /\ Len(log) = 2
       /\ log[2].outcome = "Executed"
       /\ log[2].after.rip = OverflowingAdd(log[1].before.rip, U64(1)).result
       /\ GetReg(log[2].after, "Rsp") = GetReg(log[1].before, "Rsp")

JccCondition(t, c) ==
    CASE t = "Je"  -> c.zf
      [] t = "Jne" -> ~c.zf
      [] t = "Jg"  -> ~c.zf /\ c.sf = c.of
      [] t = "Jge" -> c.sf = c.of
      [] t = "Jl"  -> c.sf # c.of
      [] t = "Jle" -> c.zf \/ c.sf # c.of

\* C7: Jcc imm ends with RIP = imm exactly when its condition on ZF, SF
\* and OF holds and with RIP one past its old value otherwise, and changes
\* nothing but RIP.
BranchTable ==
    \A i \in DOMAIN log :
        (/\ log[i].instruction.instruction_type \in {"Je", "Jne", "Jg", "Jge", "Jl", "Jle"}
         /\ ShapeOf(log[i].instruction.operands) = <<"Immediate">>
         /\ log[i].outcome \in {"Executed", "Panic"})
        => /\ log[i].outcome = "Executed"
           /\ log[i].after =
                  [log[i].before EXCEPT !.rip =
                      IF JccCondition(log[i].instruction.instruction_type, log[i].before)
                      THEN U64(log[i].instruction.operands[1].num)
                      ELSE OverflowingAdd(log[i].before.rip, U64(1)).result]

\* the words of a line: its maximal runs of characters other than space and tab
RECURSIVE WordLen(_)
WordLen(input) ==
    IF Len(input) > 0 /\ CharAt(input, 1) \notin Space
    THEN 1 + WordLen(Drop(input, 1)) ELSE 0
RECURSIVE Words(_)
Words(line) ==
    Bind(Drop(line, LeadingCount(line, Space)), LAMBDA s :
        IF Len(s) = 0 THEN << >>
        ELSE Bind(WordLen(s), LAMBDA n : <<SubSeq(s, 1, n)>> \o Words(Drop(s, n))))

\* the kind whose spelling is exactly the word, "-" when there is none
Mnemonics ==
    parse_arithmetic_instructions \o parse_logic_instructions
    \o parse_shift_rotate_instructions \o parse_stack_instructions
    \o parse_compare_instructions \o parse_jump_instructions
    \o parse_call_ret_instructions \o parse_advanced_instructions
KindSpelled(word) ==
    IF \E k \in DOMAIN Mnemonics : Mnemonics[k][1] = word
    THEN Mnemonics[CHOOSE k \in DOMAIN Mnemonics : Mnemonics[k][1] = word][2]
    ELSE "-"

\* the word is an operand and nothing more
IsOperandWord(word) == Bind(operand(word), LAMBDA o : o.ok /\ Len(o.rest) = 0)

\* the line is a mnemonic followed by at most two operands
IsMnemonicLine(w) ==
    /\ Len(w) \in 1..3
    /\ KindSpelled(w[1]) # "-"
    /\ \A k \in 2..Len(w) : IsOperandWord(w[k])

\* C8: a line `m <operands>` parses to the instruction whose kind is the
\* one spelled m, the longest matching mnemonic, with the given operands.
LongestMnemonicChosen ==
    \A i \in DOMAIN log :
        Bind(Words(log[i].line), LAMBDA w :
            (/\ log[i].outcome \in {"Executed", "EncodeError", "Panic", "ParseError"}
             /\ IsMnemonicLine(w))
            => log[i].instruction =
                   Instruction(KindSpelled(w[1]),
                               [k \in 1..(Len(w) - 1) |-> operand(w[k + 1]).val]))

\* C9: a line that fails to parse or that the encoder adapter rejects
\* leaves every component of CpuState as it was before the line.
ErrorsLeaveCpuState ==
    \A i \in DOMAIN log :
        log[i].outcome \in {"ParseError", "EncodeError"}
        => /\ log[i].after = log[i].before
           /\ i = Len(log) => cpu = log[i].before
           /\ i < Len(log) => log[i + 1].before = log[i].before

\* a rejected instruction and an unparsable line, each met by a CPU that
\* earlier lines had changed
EncodeErrorHappened ==
    \E i \in DOMAIN log :
        /\ log[i].outcome = "EncodeError"
        /\ log[i].before # NewCPU
        /\ cpu = log[i].before

\* the i32 that the low 32 bits of v hold
LowAsI32(v) == (IF v[2] >= 32768 THEN v[2] - 65536 ELSE v[2]) * 65536 + v[1]

\* v is the sign extension to 64 bits of the i32 imm
IsSignExtensionOf(v, imm) ==
    /\ LowAsI32(v) = imm
    /\ v[3] = (IF imm < 0 THEN 65535 ELSE 0)
    /\ v[4] = (IF imm < 0 THEN 65535 ELSE 0)

IsMovRegImm(instruction) ==
    /\ instruction.instruction_type = "Mov"
    /\ ShapeOf(instruction.operands) = <<"Register", "Immediate">>

\* C10: MOV r, imm sets GPR[r] to the sign extension of imm, adds 1 to
\* RIP and leaves every other GPR, RFLAGS, the flags, memory and XMM as
\* they were.
MovSignExtends ==
    \A i \in DOMAIN log :
        (log[i].outcome = "Executed" /\ IsMovRegImm(log[i].instruction))
        => /\ IsSignExtensionOf(GetReg(log[i].after, log[i].instruction.operands[1].reg),
                                log[i].instruction.operands[2].num)
           /\ log[i].after.rip = OverflowingAdd(log[i].before.rip, U64(1)).result
           /\ \A r \in Register \ {log[i].instruction.operands[1].reg} :
                  GetReg(log[i].after, r) = GetReg(log[i].before, r)
           /\ log[i].after.rflags = log[i].before.rflags
           /\ log[i].after.cf = log[i].before.cf /\ log[i].after.zf = log[i].before.zf
           /\ log[i].after.sf = log[i].before.sf /\ log[i].after.of = log[i].before.of
           /\ log[i].after.memory = log[i].before.memory
           /\ log[i].after.xmm = log[i].before.xmm

\* a MOV of a negative immediate into a register that held another value,
\* on a CPU whose flags and memory are not those of a fresh one
MovOfNegativeHappened ==
    \E i \in DOMAIN log :
        /\ log[i].outcome = "Executed" /\ IsMovRegImm(log[i].instruction)
        /\ log[i].instruction.operands[2].num < 0
        /\ GetReg(log[i].after, log[i].instruction.operands[1].reg)
               # GetReg(log[i].before, log[i].instruction.operands[1].reg)
        /\ log[i].before.rflags # NewCPU.rflags \/ log[i].before.memory # NewCPU.memory
        /\ cpu = log[i].after

\* the number of zero bits below the lowest set bit of a non-zero v
TrailingZeros(v) ==
    CHOOSE k \in 0..63 : BitOf(v, k) = 1 /\ \A j \in 0..(k - 1) : BitOf(v, j) = 0

IsBsfRegReg(instruction) ==
    /\ instruction.instruction_type = "Bsf"
    /\ ShapeOf(instruction.operands) = <<"Register", "Register">>

\* C11: BSF d, s with GPR[s] = v sets GPR[d] to the number of trailing
\* zeros of v and clears ZF when v is not 0, and sets ZF and leaves GPR[d]
\* as it was when v is 0.
BsfFindsLowestSetBit ==
    \A i \in DOMAIN log :
        (log[i].outcome = "Executed" /\ IsBsfRegReg(log[i].instruction))
        => Bind(GetReg(log[i].before, log[i].instruction.operands[2].reg), LAMBDA v :
               IF v = ZeroU64
               THEN /\ log[i].after.zf
                    /\ GetReg(log[i].after, log[i].instruction.operands[1].reg)
                           = GetReg(log[i].before, log[i].instruction.operands[1].reg)
               ELSE /\ ~log[i].after.zf
                    /\ GetReg(log[i].after, log[i].instruction.operands[1].reg)
                           = U64(TrailingZeros(v)))

\* a BSF of a source whose only set bit is bit 63, in the same program as
\* the instructions that built the source
BsfOfHighBitHappened ==
    \E i \in DOMAIN log :
        /\ log[i].outcome = "Executed" /\ IsBsfRegReg(log[i].instruction)
        /\ GetReg(log[i].before, log[i].instruction.operands[2].reg) = <<0, 0, 0, 32768>>
        /\ GetReg(log[i].after, log[i].instruction.operands[1].reg) = U64(63)
        /\ cpu = log[i].after


\* bit i (0..127) of an XMM register
XmmBit(x, i) == (x[(i \div 16) + 1] \div (2 ^ (i % 16))) % 2

\* the carry into bit k of 32-bit lane `lane` when a and b are added lane
\* by lane: no carry enters bit 0 of a lane
RECURSIVE LaneCarry(_, _, _, _)
LaneCarry(a, b, lane, k) ==
    IF k = 0 THEN 0
    ELSE (XmmBit(a, 32 * lane + k - 1) + XmmBit(b, 32 * lane + k - 1)
          + LaneCarry(a, b, lane, k - 1)) \div 2

\* r holds, in each 32-bit lane, the sum of the lanes of a and b modulo 2^32
IsLaneSum(r, a, b) ==
    \A lane \in 0..3 : \A k \in 0..31 :
        XmmBit(r, 32 * lane + k)
            = (XmmBit(a, 32 * lane + k) + XmmBit(b, 32 * lane + k)
               + LaneCarry(a, b, lane, k)) % 2

IsPadddXmmXmm(instruction) ==
    /\ instruction.instruction_type = "Paddd"
    /\ ShapeOf(instruction.operands) = <<"XmmRegister", "XmmRegister">>

\* C12: PADDD xmmD, xmmS sets each 32-bit lane of xmm[D] to the sum modulo
\* 2^32 of that lane of xmm[D] and xmm[S], with no carry between lanes,
\* and leaves every other XMM register, the GPRs and the flags as they were.
PadddAddsLanes ==
    \A i \in DOMAIN log :
        (log[i].outcome = "Executed" /\ IsPadddXmmXmm(log[i].instruction))
        => Bind(log[i].instruction.operands[1].num, LAMBDA D :
           Bind(log[i].instruction.operands[2].num, LAMBDA S :
               /\ IsLaneSum(log[i].after.xmm[D], log[i].before.xmm[D], log[i].before.xmm[S])
               /\ \A n \in (0..15) \ {D} : log[i].after.xmm[n] = log[i].before.xmm[n]
               /\ log[i].after.gpr = log[i].before.gpr
               /\ log[i].after.rflags = log[i].before.rflags
               /\ log[i].after.cf = log[i].before.cf /\ log[i].after.zf = log[i].before.zf
               /\ log[i].after.sf = log[i].before.sf /\ log[i].after.of = log[i].before.of))

\* a PADDD of two different registers in which three lanes carry out
PadddCarryDroppedHappened ==
    \E i \in DOMAIN log :
        /\ log[i].outcome = "Executed" /\ IsPadddXmmXmm(log[i].instruction)
        /\ log[i].instruction.operands[1].num # log[i].instruction.operands[2].num
        /\ log[i].before.xmm[log[i].instruction.operands[1].num]
               = <<65535, 65535, 1, 0, 0, 32768, 65535, 32767>>
        /\ log[i].before.xmm[log[i].instruction.operands[2].num]
               = <<1, 0, 65535, 65535, 0, 32768, 1, 0>>
        /\ log[i].after.xmm[log[i].instruction.operands[1].num]
               = <<0, 0, 0, 0, 0, 0, 0, 32768>>
        /\ cpu = log[i].after

\* C13: a line of single mode that parse_input answers with an InputType
\* is consumed to its end: a line with an unconsumed tail is a parse error.
WholeLineParsed ==
    \A i \in DOMAIN log :
        (/\ log[1].outcome # "Run"
         /\ log[i].outcome \in {"Executed", "EncodeError", "Panic", "RegisterQuery", "MemoryQuery"})
        => Len(parse_input(log[i].line).rest) = 0

\* C14: `run` processes the buffered lines in the order they were
\* entered, and the first line that gives a parse error or an encoder
\* error is the last line it processes.
RunStopsAtFirstError ==
    [][(Len(log') > 0 /\ log'[1].outcome = "Run" /\ steps' = steps + 1)
       => \A i \in 2..Len(log') :
              /\ log'[i].line = code_buffer[i - 1]
              /\ log'[i].outcome \in {"ParseError", "EncodeError"} => i = Len(log')]_vars

\* C15: `run` in multi mode executes the buffered lines from the first
\* one on and leaves the buffer empty; `run` in any other mode changes
\* neither CpuState nor the buffer; and any other line typed in multi mode
\* is appended to the buffer and leaves CpuState as it was.
RunOnlyInMultiMode ==
    [][(steps' = steps + 1 /\ Len(log') > 0 /\ log'[1].line # "")
       => /\ (log'[1].line = "run" /\ repl_mode = "Multi")
              => /\ log'[1].outcome = "Run"
                 /\ code_buffer # << >>
                        => Len(log') >= 2 /\ log'[2].line = code_buffer[1]
                 /\ session' = "running" => code_buffer' = << >>
          /\ (log'[1].line = "run" /\ repl_mode # "Multi")
              => cpu' = cpu /\ code_buffer' = code_buffer
          /\ (log'[1].line \notin MetaCommands /\ repl_mode = "Multi")
              => cpu' = cpu /\ code_buffer' = Append(code_buffer, log'[1].line)]_vars

\* a `run` that executed a buffered line, changed the CPU and left the
\* buffer empty
RunExecutedBufferHappened ==
    /\ Len(log) >= 2
    /\ log[1].outcome = "Run"
    /\ log[2].outcome = "Executed"
    /\ cpu = log[Len(log)].after /\ cpu # NewCPU
    /\ code_buffer = << >>
    /\ repl_mode = "Multi"

\* C16: an instruction is executed exactly once when the encoder adapter
\* returned bytes for it and not at all when it returned an error: a step
\* reported as executed is one application of CPU::execute to an
\* instruction that encodes, and a rejected instruction leaves the CPU alone.
ExecutedOnceIffEncoded ==
    \A i \in DOMAIN log :
        log[i].instruction # NoInstruction /\ log[i].line # ""
        => Bind(assemble_instruction(log[i].instruction).status, LAMBDA status :
               /\ log[i].outcome = "Executed"
                      <=> status = "Ok" /\ ~execute(log[i].before, log[i].instruction).panic
               /\ log[i].outcome = "Executed"
                      => log[i].after = execute(log[i].before, log[i].instruction).cpu
               /\ log[i].outcome = "EncodeError" <=> status = "Err"
               /\ status = "Err" => log[i].after = log[i].before)

\* an encoded instruction executed once on a CPU that earlier lines had
\* changed, its RIP one past the RIP before it
EncodedExecutedOnceHappened ==
    \E i \in DOMAIN log :
        /\ log[i].outcome = "Executed" /\ log[i].line # ""
        /\ log[i].before # NewCPU
        /\ log[i].after.rip = OverflowingAdd(log[i].before.rip, U64(1)).result
        /\ log[i].instruction.instruction_type \notin
               {"Jmp", "Je", "Jne", "Jg", "Jge", "Jl", "Jle", "Call", "Ret"}
        /\ cpu = log[i].after

\* the value of a second operand: a register's content, or the sign
\* extension of an immediate
SecondOperandValue(c, op) ==
    IF op.kind = "Register" THEN GetReg(c, op.reg)
    ELSE <<op.num % 65536, (op.num \div 65536) % 65536,
           IF op.num < 0 THEN 65535 ELSE 0, IF op.num < 0 THEN 65535 ELSE 0>>

IsRegAndRegOrImm(instruction, t) ==
    /\ instruction.instruction_type = t
    /\ ShapeOf(instruction.operands) \in {<<"Register", "Immediate">>, <<"Register", "Register">>}

\* C17: CMP a, b sets ZF exactly when GPR[a] equals the value of b, and
\* changes nothing but CF, ZF, SF, OF, RFLAGS and RIP.
CmpComparesOnly ==
    \A i \in DOMAIN log :
        (log[i].outcome = "Executed" /\ IsRegAndRegOrImm(log[i].instruction, "Cmp"))
        => /\ log[i].after.zf
                  = (GetReg(log[i].before, log[i].instruction.operands[1].reg)
                         = SecondOperandValue(log[i].before, log[i].instruction.operands[2]))
           /\ log[i].after.gpr = log[i].before.gpr
           /\ log[i].after.memory = log[i].before.memory
           /\ log[i].after.xmm = log[i].before.xmm

\* a CMP of a register with a negative immediate equal to it, which sets
\* a ZF that was clear
CmpOfEqualNegativeHappened ==
    \E i \in DOMAIN log :
        /\ log[i].outcome = "Executed" /\ IsRegAndRegOrImm(log[i].instruction, "Cmp")
        /\ log[i].instruction.operands[2].kind = "Immediate"
        /\ log[i].instruction.operands[2].num < 0
        /\ GetReg(log[i].before, log[i].instruction.operands[1].reg) # ZeroU64
        /\ log[i].after.zf /\ ~log[i].before.zf
        /\ cpu = log[i].after

\* the options that the words of a memory command line ask for
HasWord(w, set) == \E k \in DOMAIN w : w[k] \in set
WordAfter(w, set) == w[(CHOOSE k \in DOMAIN w : w[k] \in set) + 1]
OptionsAskedFor(w) ==
    [address |-> ParseU64(Drop(w[2], 2), 16, ZeroU64).val,
     size    |-> IF HasWord(w, {"-s", "--size"})
                 THEN ParseU64(WordAfter(w, {"-s", "--size"}), 10, ZeroU64).val
                 ELSE U64(16),
     format  |-> IF HasWord(w, {"-d", "--decimal"}) THEN "Decimal" ELSE "Hex"]

\* C18: a memory command line parses to the address, the size (16 when
\* none is given) and the format (Hex when none is given) that its words
\* ask for, also when it gives both a size and a format.
MemoryOptionsHonoured ==
    \A i \in DOMAIN log :
        log[i].outcome = "MemoryQuery"
        => parse_input(log[i].line).val.options = OptionsAskedFor(Words(log[i].line))

RECURSIVE AddBits(_, _, _, _, _, _)
AddBits(r, a, b, k, last, carry) ==
    IF k = last \/ carry < 0 THEN carry
    ELSE Bind(BitOf(a, k) + BitOf(b, k) + carry, LAMBDA t :
             IF BitOf(r, k) # t % 2 THEN -1
             ELSE AddBits(r, a, b, k + 1, last, t \div 2))

\* r = (a + b) mod 2^64, and whether a + b carries out of bit 63
IsSumOf(r, a, b, carries) ==
    Bind(AddBits(r, a, b, 0, 16, 0), LAMBDA c1 :
    Bind(AddBits(r, a, b, 16, 32, c1), LAMBDA c2 :
    Bind(AddBits(r, a, b, 32, 48, c2), LAMBDA c3 :
        AddBits(r, a, b, 48, 64, c3) = (IF carries THEN 1 ELSE 0))))

\* C20: ADD d, b sets GPR[d] to (GPR[d] + b) mod 2^64 and SUB d, b to
\* (GPR[d] - b) mod 2^64; afterwards ZF says the result is 0, SF is bit 63
\* of the result, and OF is the carry out of bit 63 (ADD) or the borrow
\* (SUB) of the unsigned operation.
AddSubWrapAndFlag ==
    \A i \in DOMAIN log :
        (/\ log[i].outcome = "Executed"
         /\ \/ IsRegAndRegOrImm(log[i].instruction, "Add")
            \/ IsRegAndRegOrImm(log[i].instruction, "Sub"))
        => Bind(GetReg(log[i].before, log[i].instruction.operands[1].reg), LAMBDA a :
           Bind(SecondOperandValue(log[i].before, log[i].instruction.operands[2]), LAMBDA b :
           Bind(GetReg(log[i].after, log[i].instruction.operands[1].reg), LAMBDA r :
               /\ IF log[i].instruction.instruction_type = "Add"
                  THEN IsSumOf(r, a, b, log[i].after.of)
                  ELSE IsSumOf(a, r, b, LessU64(a, b)) /\ log[i].after.of = LessU64(a, b)
               /\ log[i].after.zf = (r = ZeroU64)
               /\ log[i].after.sf = (BitOf(r, 63) = 1))))

\* an ADD whose sum carries out of bit 63 and has bit 63 set, so that the
\* carry and the signed overflow differ
AddCarriedHappened ==
    \E i \in DOMAIN log :
        /\ log[i].outcome = "Executed" /\ IsRegAndRegOrImm(log[i].instruction, "Add")
        /\ log[i].after.of /\ log[i].after.sf /\ ~log[i].after.zf
        /\ GetReg(log[i].after, log[i].instruction.operands[1].reg)
               # GetReg(log[i].before, log[i].instruction.operands[1].reg)
        /\ cpu = log[i].after

\* the instructions that call update_flags, with the operand shapes for
\* which they do
IsFlagUpdating(instruction) ==
    \/ /\ instruction.instruction_type \in {"Add", "Sub", "And", "Or", "Xor", "Cmp", "Test"}
       /\ ShapeOf(instruction.operands) \in {<<"Register", "Immediate">>, <<"Register", "Register">>}
    \/ /\ instruction.instruction_type \in {"Inc", "Dec", "Neg", "Not"}
       /\ ShapeOf(instruction.operands) = <<"Register">>
    \/ /\ instruction.instruction_type \in {"Shl", "Shr", "Rol", "Ror"}
       /\ ShapeOf(instruction.operands) = <<"Register", "Immediate">>

\* the result an executed flag-updating instruction hands to the flag
\* update: the difference for CMP, the conjunction for TEST, and otherwise
\* the value it leaves in its destination
FlagResult(e) ==
    IF e.instruction.instruction_type = "Cmp" THEN
        OverflowingSub(GetReg(e.before, e.instruction.operands[1].reg),
                       SecondOperandValue(e.before, e.instruction.operands[2])).result
    ELSE IF e.instruction.instruction_type = "Test" THEN
        BitAnd(GetReg(e.before, e.instruction.operands[1].reg),
               SecondOperandValue(e.before, e.instruction.operands[2]))
    ELSE GetReg(e.after, e.instruction.operands[1].reg)

\* C21: after every instruction that goes through the shared flag update,
\* CF = (result < GPR[RAX]) with GPR[RAX] the value the instruction found
\* in RAX, whichever instruction ran and whichever register it wrote, RAX
\* included.
CarryIsResultBelowRax ==
    \A i \in DOMAIN log :
        (log[i].outcome = "Executed" /\ IsFlagUpdating(log[i].instruction))
        => log[i].after.cf = LessU64(FlagResult(log[i]), GetReg(log[i].before, "Rax"))

\* bit k of the bitwise operation of kind t on bits x and y
BitwiseBit(t, x, y) ==
    CASE t \in {"And", "Test"} -> x * y
      [] t = "Or"  -> IF x + y > 0 THEN 1 ELSE 0
      [] t = "Xor" -> (x + y) % 2
      [] t = "Not" -> 1 - x

IsBitwise(instruction) ==
    \/ /\ instruction.instruction_type \in {"And", "Or", "Xor", "Test"}
       /\ ShapeOf(instruction.operands) \in {<<"Register", "Immediate">>, <<"Register", "Register">>}
    \/ /\ instruction.instruction_type = "Not"
       /\ ShapeOf(instruction.operands) = <<"Register">>

\* C22: AND, OR, XOR (register or immediate source), NOT and TEST end with
\* OF = false, ZF = (result = 0) and SF = bit 63 of the result, the result
\* being the bitwise operation on the operands, which all but TEST store;
\* XOR r, r leaves GPR[r] = 0, ZF = true, SF = false, OF = false.
BitwiseFlags ==
    \A i \in DOMAIN log :
        (log[i].outcome = "Executed" /\ IsBitwise(log[i].instruction))
        => Bind(log[i].instruction.instruction_type, LAMBDA t :
           Bind(GetReg(log[i].before, log[i].instruction.operands[1].reg), LAMBDA a :
           Bind(IF t = "Not" THEN ZeroU64
                ELSE SecondOperandValue(log[i].before, log[i].instruction.operands[2]), LAMBDA b :
           Bind(GetReg(log[i].after, log[i].instruction.operands[1].reg), LAMBDA r :
               /\ IF t = "Test" THEN r = a
                  ELSE \A k \in 0..63 : BitOf(r, k) = BitwiseBit(t, BitOf(a, k), BitOf(b, k))
               /\ ~log[i].after.of
               /\ log[i].after.zf
                      = (\A k \in 0..63 : BitwiseBit(t, BitOf(a, k), BitOf(b, k)) = 0)
               /\ log[i].after.sf = (BitwiseBit(t, BitOf(a, 63), BitOf(b, 63)) = 1)
               /\ (t = "Xor" /\ Len(log[i].instruction.operands) = 2
                     /\ log[i].instruction.operands[2] = log[i].instruction.operands[1])
                  => (r = ZeroU64 /\ log[i].after.zf /\ ~log[i].after.sf)))))

\* an XOR of a non-zero register with itself, which clears it and sets a
\* ZF that was clear
XorOfRegisterWithItselfHappened ==
    \E i \in DOMAIN log :
        /\ log[i].outcome = "Executed"
        /\ log[i].instruction.instruction_type = "Xor"
        /\ ShapeOf(log[i].instruction.operands) = <<"Register", "Register">>
        /\ log[i].instruction.operands[2] = log[i].instruction.operands[1]
        /\ GetReg(log[i].before, log[i].instruction.operands[1].reg) # ZeroU64
        /\ ~log[i].before.zf
        /\ GetReg(log[i].after, log[i].instruction.operands[1].reg) = ZeroU64
        /\ cpu = log[i].after /\ cpu.zf

IsOneRegister(instruction, t) ==
    instruction.instruction_type = t /\ ShapeOf(instruction.operands) = <<"Register">>

\* C23: INC r leaves exactly the CpuState that ADD r, 1 leaves from the
\* same state (registers, the four flags, RFLAGS, RIP, memory), and DEC r
\* the CpuState that SUB r, 1 leaves.
IncDecAsAddSubOne ==
    \A i \in DOMAIN log :
        /\ (log[i].outcome = "Executed" /\ IsOneRegister(log[i].instruction, "Inc"))
           => log[i].after
                  = execute(log[i].before,
                            RegImm("Add", log[i].instruction.operands[1].reg, 1)).cpu
        /\ (log[i].outcome = "Executed" /\ IsOneRegister(log[i].instruction, "Dec"))
           => log[i].after
                  = execute(log[i].before,
                            RegImm("Sub", log[i].instruction.operands[1].reg, 1)).cpu

\* an INC of RAX that carries out of bit 63: RAX was 2^64 - 1
IncCarriedHappened ==
    \E i \in DOMAIN log :
        /\ log[i].outcome = "Executed" /\ IsOneRegister(log[i].instruction, "Inc")
        /\ log[i].instruction.operands[1].reg = "Rax"
        /\ GetReg(log[i].after, "Rax") = ZeroU64
        /\ log[i].after.of /\ log[i].after.zf
        /\ log[i].after # log[i].before

\* C24: NEG r with GPR[r] = v sets GPR[r] to (0 - v) mod 2^64, ZF exactly
\* when v = 0 and OF exactly when v /= 0, and NEG r twice restores v.
NegIsTwosComplement ==
    \A i \in DOMAIN log :
        (log[i].outcome = "Executed" /\ IsOneRegister(log[i].instruction, "Neg"))
        => Bind(GetReg(log[i].before, log[i].instruction.operands[1].reg), LAMBDA v :
           Bind(GetReg(log[i].after, log[i].instruction.operands[1].reg), LAMBDA r :
               /\ IsSumOf(ZeroU64, r, v, v # ZeroU64)
               /\ log[i].after.zf = (v = ZeroU64)
               /\ log[i].after.of = (v # ZeroU64)
               /\ (/\ i > 1
                   /\ log[i - 1].outcome = "Executed"
                   /\ log[i - 1].instruction = log[i].instruction)
                  => r = GetReg(log[i - 1].before, log[i].instruction.operands[1].reg)))

\* two NEGs of a register that held 5, which is 2^64 - 5 in between
NegTwiceHappened ==
    \E i \in DOMAIN log :
        /\ i > 1
        /\ log[i].outcome = "Executed" /\ IsOneRegister(log[i].instruction, "Neg")
        /\ log[i - 1].outcome = "Executed" /\ log[i - 1].instruction = log[i].instruction
        /\ GetReg(log[i - 1].before, log[i].instruction.operands[1].reg) = U64(5)
        /\ GetReg(log[i].before, log[i].instruction.operands[1].reg)
               = <<65531, 65535, 65535, 65535>>
        /\ GetReg(log[i].after, log[i].instruction.operands[1].reg) = U64(5)
        /\ log[i].after.of /\ ~log[i].after.zf

IsRegisterImmediate(instruction, t) ==
    instruction.instruction_type = t
    /\ ShapeOf(instruction.operands) = <<"Register", "Immediate">>

\* C25: SHL r, n and SHR r, n with a count n in 0..255 complete and set
\* GPR[r] to (GPR[r] * 2^n) mod 2^64 and to floor(GPR[r] / 2^n): the count
\* is not masked, so the result is 0 for n >= 64.
ShiftCountUsedAsIs ==
    \A i \in DOMAIN log :
        (/\ \/ IsRegisterImmediate(log[i].instruction, "Shl")
            \/ IsRegisterImmediate(log[i].instruction, "Shr")
         /\ log[i].instruction.operands[2].num \in 0..255)
        => Bind(log[i].instruction.operands[2].num, LAMBDA n :
           Bind(GetReg(log[i].before, log[i].instruction.operands[1].reg), LAMBDA v :
           Bind(GetReg(log[i].after, log[i].instruction.operands[1].reg), LAMBDA r :
               /\ log[i].outcome = "Executed"
               /\ IF log[i].instruction.instruction_type = "Shl"
                  THEN \A k \in 0..63 : BitOf(r, k) = (IF k >= n THEN BitOf(v, k - n) ELSE 0)
                  ELSE \A k \in 0..63 : BitOf(r, k) = (IF k + n <= 63 THEN BitOf(v, k + n) ELSE 0))))

\* the rotation kind that undoes kind t
OppositeRotation(t) == IF t = "Rol" THEN "Ror" ELSE "Rol"

\* C26: ROL r, n with a count n >= 0 leaves GPR[r] rotated left by n mod 64
\* bit positions within 64 bits, ROR r, n rotated right likewise, and a
\* ROL r, n followed by ROR r, n restores GPR[r].
RotateByCountMod64 ==
    \A i \in DOMAIN log :
        (/\ \/ IsRegisterImmediate(log[i].instruction, "Rol")
            \/ IsRegisterImmediate(log[i].instruction, "Ror")
         /\ log[i].instruction.operands[2].num >= 0)
        => Bind(log[i].instruction.operands[2].num % 64, LAMBDA n :
           Bind(GetReg(log[i].before, log[i].instruction.operands[1].reg), LAMBDA v :
           Bind(GetReg(log[i].after, log[i].instruction.operands[1].reg), LAMBDA r :
               /\ log[i].outcome = "Executed"
               /\ IF log[i].instruction.instruction_type = "Rol"
                  THEN \A k \in 0..63 : BitOf(r, (k + n) % 64) = BitOf(v, k)
                  ELSE \A k \in 0..63 : BitOf(r, k) = BitOf(v, (k + n) % 64)
               /\ (/\ i > 1
                   /\ log[i - 1].instruction
                          = [log[i].instruction EXCEPT
                                !.instruction_type = OppositeRotation(@)])
                  => r = GetReg(log[i - 1].before, log[i].instruction.operands[1].reg))))

\* a ROL by 65 followed by a ROR by 65 of a register whose bits 0 and 63
\* differ from their neighbours: the value in between is another one
RolThenRorHappened ==
    \E i \in DOMAIN log :
        /\ i > 1
        /\ log[i].outcome = "Executed" /\ IsRegisterImmediate(log[i].instruction, "Ror")
        /\ log[i].instruction.operands[2].num = 65
        /\ log[i - 1].instruction = [log[i].instruction EXCEPT !.instruction_type = "Rol"]
        /\ GetReg(log[i].before, log[i].instruction.operands[1].reg)
               # GetReg(log[i].after, log[i].instruction.operands[1].reg)
        /\ GetReg(log[i].after, log[i].instruction.operands[1].reg)
               = GetReg(log[i - 1].before, log[i].instruction.operands[1].reg)

\* C27: PUSH r from a state with RSP = s, s >= 8, completes with
\* RSP = s - 8 and GPR[r] in the 8 bytes at s-8 .. s-1, low byte first;
\* every other byte of memory, every GPR but RSP and the flags keep their
\* values.
PushFrame ==
    \A i \in DOMAIN log :
        (/\ log[i].outcome \in {"Executed", "Panic"}
         /\ IsOneRegister(log[i].instruction, "Push")
         /\ LessEqU64(U64(8), GetReg(log[i].before, "Rsp")))
        => Bind(OverflowingSub(GetReg(log[i].before, "Rsp"), U64(8)).result, LAMBDA top :
           Bind(log[i].after, LAMBDA c :
               /\ log[i].outcome = "Executed"
               /\ GetReg(c, "Rsp") = top
               /\ \A j \in 0..7 :
                      MemByte(c.memory, AddrOf(top) + j)
                          = ToLeBytes(GetReg(c, log[i].instruction.operands[1].reg))[j + 1]
               /\ \A a \in (DOMAIN c.memory \cup DOMAIN log[i].before.memory)
                               \ (AddrOf(top) .. AddrOf(top) + 7) :
                      MemByte(c.memory, a) = MemByte(log[i].before.memory, a)
               /\ \A reg \in Register \ {"Rsp"} :
                      GetReg(c, reg) = GetReg(log[i].before, reg)
               /\ <<c.cf, c.zf, c.sf, c.of, c.rflags>>
                      = <<log[i].before.cf, log[i].before.zf, log[i].before.sf,
                          log[i].before.of, log[i].before.rflags>>))

\* C28: one step of JMP imm, for every target imm in 0 .. 2^31 - 1,
\* completes and leaves RIP = imm.
JmpLandsOnTarget ==
    \A i \in DOMAIN log :
        (/\ log[i].outcome \in {"Executed", "Panic"}
         /\ log[i].instruction.instruction_type = "Jmp"
         /\ ShapeOf(log[i].instruction.operands) = <<"Immediate">>
         /\ log[i].instruction.operands[1].num >= 0)
        => /\ log[i].outcome = "Executed"
           /\ log[i].after.rip = SecondOperandValue(log[i].before, log[i].instruction.operands[1])

\* the entry is of a JMP, a CALL, a RET or a Jcc whose condition holds
IsTransfer(e) ==
    \/ e.instruction.instruction_type \in {"Jmp", "Call", "Ret"}
    \/ /\ e.instruction.instruction_type \in {"Je", "Jne", "Jg", "Jge", "Jl", "Jle"}
       /\ JccCondition(e.instruction.instruction_type, e.before)

\* the entries of instructions that ran to their end
ExecutedIn(entries) == {i \in DOMAIN entries : entries[i].outcome = "Executed"}

\* the entries a step writes: a step that reads no line (exit, an
\* interrupt) leaves the log of the step before it
StepEntries == IF steps' = steps THEN << >> ELSE log'

\* C29: every executed instruction that is not a taken branch, a CALL or a
\* RET adds exactly 1 to RIP, so a step that executes n such instructions
\* and nothing else adds n; a line that is rejected or is a query leaves
\* RIP alone.
RipCountsInstructions ==
    [][/\ \A i \in DOMAIN StepEntries :
              /\ (StepEntries[i].outcome = "Executed" /\ ~IsTransfer(StepEntries[i]))
                 => StepEntries[i].after.rip
                        = OverflowingAdd(StepEntries[i].before.rip, U64(1)).result
              /\ StepEntries[i].outcome \notin {"Executed", "Panic"}
                 => StepEntries[i].after.rip = StepEntries[i].before.rip
       /\ (\A i \in DOMAIN StepEntries :
               StepEntries[i].outcome # "Panic" /\ ~IsTransfer(StepEntries[i]))
          => cpu'.rip = OverflowingAdd(cpu.rip,
                                       U64(Cardinality(ExecutedIn(StepEntries)))).result]_vars

\* the second of two executed instructions, neither a branch: RIP is 2
SecondInstructionHappened ==
    \E i \in DOMAIN log :
        /\ log[i].outcome = "Executed" /\ ~IsTransfer(log[i])
        /\ log[i].before.rip = U64(1)
        /\ cpu = log[i].after /\ cpu.rip = U64(2)

\* CF, ZF, SF, OF and RFLAGS
FlagsOf(c) == <<c.cf, c.zf, c.sf, c.of, c.rflags>>

\* C30: CMOVNE d, s sets GPR[d] to GPR[s] when ZF is clear and leaves
\* GPR[d] alone when ZF is set; CF, ZF, SF, OF and RFLAGS keep their
\* values in both cases.
CmovneMovesWhenNotEqual ==
    \A i \in DOMAIN log :
        (/\ log[i].outcome = "Executed"
         /\ log[i].instruction.instruction_type = "Cmovne"
         /\ ShapeOf(log[i].instruction.operands) = <<"Register", "Register">>)
        => /\ GetReg(log[i].after, log[i].instruction.operands[1].reg)
                  = GetReg(log[i].before,
                           log[i].instruction.operands[IF log[i].before.zf THEN 1 ELSE 2].reg)
           /\ FlagsOf(log[i].after) = FlagsOf(log[i].before)

\* a CMOVNE with ZF set whose source differs from its destination, which
\* it leaves alone
CmovneSkippedHappened ==
    \E i \in DOMAIN log :
        /\ log[i].outcome = "Executed"
        /\ log[i].instruction.instruction_type = "Cmovne"
        /\ ShapeOf(log[i].instruction.operands) = <<"Register", "Register">>
        /\ log[i].before.zf
        /\ GetReg(log[i].before, log[i].instruction.operands[1].reg)
               # GetReg(log[i].before, log[i].instruction.operands[2].reg)
        /\ GetReg(log[i].after, log[i].instruction.operands[1].reg)
               = GetReg(log[i].before, log[i].instruction.operands[1].reg)
        /\ cpu = log[i].after

\* the XMM indices an instruction names
XmmIndices(instruction) ==
    {instruction.operands[k].num :
         k \in {j \in DOMAIN instruction.operands :
                    instruction.operands[j].kind = "XmmRegister"}}

\* C31: a PADDD line that names an XMM index above 15 is rejected by the
\* encoder adapter and never executed, so the interpreter indexes the XMM
\* array with 0..15 only.
XmmIndexChecked ==
    \A i \in DOMAIN log :
        log[i].instruction.instruction_type = "Paddd"
        => /\ (\E n \in XmmIndices(log[i].instruction) : n > 15)
              => (log[i].outcome = "EncodeError" /\ log[i].after = log[i].before)
           /\ log[i].outcome \in {"Executed", "Panic"}
              => XmmIndices(log[i].instruction) \subseteq 0..15

\* the line `paddd xmm16 xmm0`, which the parser accepts, was rejected
\* by the encoder adapter
XmmIndexRejectedHappened ==
    \E i \in DOMAIN log :
        /\ log[i].instruction
               = Instruction("Paddd", <<OpXmmRegister(16), OpXmmRegister(0)>>)
        /\ log[i].outcome = "EncodeError"
        /\ cpu = log[i].before

\* C32: CPU::execute on an instruction whose operand list is not a row of
\* the arity table for its kind (CALL, PUSH and POP included) completes
\* and changes no component of CpuState other than RIP.
ShapeErrorsKeepState ==
    \A i \in DOMAIN log :
        (/\ log[i].outcome \in {"Executed", "Panic"}
         /\ log[i].instruction.instruction_type \in InstructionType
         /\ ShapeOf(log[i].instruction.operands)
                \notin ShapeTable(log[i].instruction.instruction_type))
        => /\ log[i].outcome = "Executed"
           /\ log[i].after = [log[i].before EXCEPT !.rip = log[i].after.rip]

\* the register whose name is the word: the name with a capital R
NamedRegister(word) == "R" \o Drop(word, 1)

\* C33: r10 .. r15, as operands and as register queries, parse to R10 ..
\* R15 and r8, r9 to R8, R9, with nothing of the name left in the input.
NumberedRegistersParse ==
    \A i \in DOMAIN log :
        Bind(Words(log[i].line), LAMBDA w :
            /\ \A n \in NumberedNames :
                   log[i].line \in {n, n \o "-h"}
                   => Bind(parse_input(log[i].line), LAMBDA p :
                          /\ log[i].outcome = "RegisterQuery"
                          /\ p.ok /\ p.val.type = "Register"
                          /\ p.val.register = NamedRegister(n)
                          /\ p.val.options.human_readable = (log[i].line # n)
                          /\ p.rest = "")
            /\ (w[1] = "mov" /\ w[2] \in NumberedNames)
               => /\ log[i].outcome = "Executed"
                  /\ log[i].instruction = RegImm("Mov", NamedRegister(w[2]), 7)
            /\ (w[1] = "mov" /\ w[3] \in NumberedNames)
               => /\ log[i].outcome = "Executed"
                  /\ log[i].instruction
                         = Instruction("Mov", <<OpRegister("Rax"),
                                                OpRegister(NamedRegister(w[3]))>>))

\* `mov r15 7` then `mov rax r15`: R15 and then RAX hold 7
NumberedRegisterMovedHappened ==
    \E i \in DOMAIN log :
        /\ log[i].line = "mov rax r15" /\ log[i].outcome = "Executed"
        /\ GetReg(log[i].before, "R15") = U64(7)
        /\ GetReg(log[i].before, "Rax") = ZeroU64
        /\ GetReg(log[i].after, "Rax") = U64(7)
        /\ cpu = log[i].after

\* the kinds whose handlers never assign a flag
FlagPreserving ==
    {"Mov", "Push", "Pop", "Jmp", "Je", "Jne", "Jg", "Jge", "Jl", "Jle", "Call", "Ret",
     "Cmovne", "Paddd"}

\* C34: MOV, PUSH, POP, JMP, every Jcc, CALL, RET, CMOVNE and PADDD leave
\* CF, ZF, SF, OF and RFLAGS as they were: only the sixteen other kinds
\* change them.
FlagsChangeOnlyByAlu ==
    \A i \in DOMAIN log :
        (/\ log[i].outcome = "Executed"
         /\ log[i].instruction.instruction_type \in FlagPreserving)
        => FlagsOf(log[i].after) = FlagsOf(log[i].before)

\* a MOV of 1 into RBX, which held 2^64 - 1, executed with SF and OF set
MovWithFlagsSetHappened ==
    \E i \in DOMAIN log :
        /\ log[i].outcome = "Executed"
        /\ log[i].instruction = RegImm("Mov", "Rbx", 1)
        /\ log[i].before.sf /\ log[i].before.of
        /\ GetReg(log[i].before, "Rbx") # U64(1)
        /\ cpu = log[i].after /\ GetReg(cpu, "Rbx") = U64(1) /\ cpu.sf /\ cpu.of

\* entries k .. k + 2n - 1 of the log are n PUSHes and then n POPs of
\* registers other than RSP, from a state with RSP at least 8n and at most
\* the size of memory
IsPushesThenPops(k, n) ==
    /\ k + 2 * n - 1 <= Len(log)
    /\ \A j \in 0..(2 * n - 1) :
           /\ IsOneRegister(log[k + j].instruction, IF j < n THEN "Push" ELSE "Pop")
           /\ log[k + j].instruction.operands[1].reg # "Rsp"
    /\ LessEqU64(U64(8 * n), GetReg(log[k].before, "Rsp"))
    /\ LessEqU64(GetReg(log[k].before, "Rsp"), U64(MemorySize))

\* the j-th POP leaves in its register what the j-th last PUSH pushed, and
\* RSP ends where it started
PopsReverseThePushes(k, n) ==
    /\ \A j \in 0..(2 * n - 1) : log[k + j].outcome = "Executed"
    /\ \A j \in 1..n :
           GetReg(log[k + 2 * n - 1].after, log[k + n + j - 1].instruction.operands[1].reg)
               = GetReg(log[k].before, log[k + n - j].instruction.operands[1].reg)
    /\ GetReg(log[k + 2 * n - 1].after, "Rsp") = GetReg(log[k].before, "Rsp")

\* the POPs are into n different registers
PopsIntoDifferentRegisters(k, n) ==
    \A i, j \in n..(2 * n - 1) :
        i # j => log[k + i].instruction.operands[1] # log[k + j].instruction.operands[1]

\* C35 as stated: n PUSHes followed by n POPs, of any registers other than
\* RSP, return the values pushed in reverse order and RSP to its start.
StackIsLifo ==
    \A k \in DOMAIN log : \A n \in 2..3 :
        IsPushesThenPops(k, n) => PopsReverseThePushes(k, n)

\* C35 as amended: n PUSHes followed by n POPs into n different registers,
\* all registers other than RSP, return the values pushed in reverse
\* order and RSP to its start.
StackIsLifoIntoDifferentRegisters ==
    \A k \in DOMAIN log : \A n \in 2..3 :
        (IsPushesThenPops(k, n) /\ PopsIntoDifferentRegisters(k, n))
        => PopsReverseThePushes(k, n)

\* PUSH rax; PUSH rbx; POP rax; POP rbx with different values in RAX and
\* RBX: the two registers have swapped their values
StackSwapHappened ==
    /\ IsPushesThenPops(3, 2) /\ PopsIntoDifferentRegisters(3, 2)
    /\ log[3].instruction.operands[1].reg = "Rax"
    /\ log[5].instruction.operands[1].reg = "Rax"
    /\ log[4].instruction.operands[1].reg = "Rbx"
    /\ log[6].instruction.operands[1].reg = "Rbx"
    /\ GetReg(log[3].before, "Rax") # GetReg(log[3].before, "Rbx")
    /\ GetReg(cpu, "Rax") = GetReg(log[3].before, "Rbx")
    /\ GetReg(cpu, "Rbx") = GetReg(log[3].before, "Rax")
    /\ GetReg(log[3].before, "Rsp") # U64(MemorySize - 8)

\* the entry is of a PUSH, POP, CALL or RET that the encoder adapter
\* accepted and that reached its memory access: a PUSH or a CALL whose
\* `rsp -= 8` panics has made none
MakesStackAccess(e) ==
    /\ e.outcome \in {"Executed", "Panic"}
    /\ e.instruction.instruction_type \in {"Push", "Pop", "Call", "Ret"}
    /\ assemble_instruction(e.instruction).status = "Ok"
    /\ e.instruction.instruction_type \in {"Push", "Call"}
       => ~ArithPanics(OverflowingSub(GetReg(e.before, "Rsp"), U64(8)))

\* the address of the 8 bytes the entry reads or writes
StackAccessAddress(e) ==
    IF e.instruction.instruction_type \in {"Push", "Call"}
    THEN OverflowingSub(GetReg(e.before, "Rsp"), U64(8)).result
    ELSE GetReg(e.before, "Rsp")

\* C36: every 8-byte access of a PUSH, POP, CALL or RET of a session is
\* at an address a with a + 8 <= 1 MiB.
StackAccessInsideMemory ==
    \A i \in DOMAIN log :
        MakesStackAccess(log[i]) => SliceInRange(StackAccessAddress(log[i]))

\* the operand lists for which the handler of a kind reaches its semantic
\* branch: the `if let` patterns of execute_mov .. execute_cmovne
\* (cpu.rs:132-403), which look at operands[0] and operands[1] only
TakesSemanticBranch(instruction) ==
    LET t   == instruction.instruction_type
        ops == instruction.operands
    IN  IF t \in {"Mov", "Add", "Sub", "And", "Or", "Xor", "Cmp", "Test"}
            THEN Len(ops) >= 2 /\ (IsRegImm(ops) \/ IsRegReg(ops))
        ELSE IF t \in {"Inc", "Dec", "Neg", "Not", "Push", "Pop"}
            THEN Len(ops) >= 1 /\ ops[1].kind = "Register"
        ELSE IF t \in {"Shl", "Shr", "Rol", "Ror"} THEN Len(ops) >= 2 /\ IsRegImm(ops)
        ELSE IF t \in {"Jmp", "Je", "Jne", "Jg", "Jge", "Jl", "Jle", "Call"}
            THEN Len(ops) >= 1 /\ ops[1].kind = "Immediate"
        ELSE IF t = "Ret" THEN TRUE
        ELSE IF t = "Paddd"
            THEN Len(ops) >= 2 /\ ops[1].kind = "XmmRegister" /\ ops[2].kind = "XmmRegister"
        ELSE Len(ops) >= 2 /\ IsRegReg(ops)

IsAcceptedExecution(e) ==
    /\ e.instruction # NoInstruction
    /\ e.outcome \in {"Executed", "Panic"}
    /\ assemble_instruction(e.instruction).status = "Ok"

\* C38: a step changes CpuState only when it executes an instruction the
\* encoder accepted; register and memory queries, meta-commands, lines
\* buffered in multi mode, calculator and script lines, parse errors and
\* encoder errors leave every component of CpuState unchanged.
CpuChangesOnlyByAcceptedInstruction ==
    [][/\ cpu' # cpu
          => \E i \in DOMAIN StepEntries : IsAcceptedExecution(StepEntries[i])
       /\ \A i \in DOMAIN StepEntries :
              ~IsAcceptedExecution(StepEntries[i])
              => StepEntries[i].after = StepEntries[i].before
       /\ \A i \in DOMAIN StepEntries :
              StepEntries[i].outcome \in {"RegisterQuery", "MemoryQuery", "Meta", "Buffered",
                                          "Calculator", "Script", "RunRejected"}
              => cpu' = cpu]_vars

\* a calculator line was handled after an instruction had changed the CPU,
\* and the CPU is as the instruction left it
CalculatorLineOnChangedCpuHappened ==
    /\ Len(log) = 1
    /\ log[1].outcome = "Calculator"
    /\ log[1].line \notin MetaCommands
    /\ cpu # NewCPU
    /\ cpu = log[1].before

\* the entries of a `run`: the buffered lines from the first on, in the
\* order of the buffer, each starting on the CPU the one before left, up
\* to the end of the buffer or to a line that stops the run
RunsBufferInOrder(entries, buffer, c, d) ==
    /\ Len(entries) - 1 <= Len(buffer)
    /\ \A i \in 1..(Len(entries) - 1) :
        /\ entries[i + 1].line = buffer[i]
        /\ entries[i + 1].before = IF i = 1 THEN c ELSE entries[i].after
        /\ entries[i + 1].instruction # NoInstruction
           => parse_instruction(buffer[i]).val = entries[i + 1].instruction
    /\ d = entries[Len(entries)].after
    /\ Len(entries) - 1 < Len(buffer)
       => entries[Len(entries)].outcome \in {"ParseError", "Panic"}

=============================================================================
